---------------------------- MODULE Spec2Model ----------------------------
(***************************************************************************)
(* Asynchronous device I/O engines of kapascan.                            *)
(*                                                                         *)
(*   base.py        IOBase / ExceptionThread, instantiated as the          *)
(*                  SCPISocket of data_logger.py                           *)
(*   controller.py  ControlSocket (Telnet command socket of the DT6220)    *)
(*                                                                         *)
(* An engine owns a stop signal, a list of worker threads (input loop,     *)
(* output loop), an outbound and an inbound FIFO queue and a transport.    *)
(* Callers run connect(), disconnect() and command(); the device at the    *)
(* other end of the transport answers the commands it reads.               *)
(*                                                                         *)
(* Text is a sequence of characters (one-character strings), so that the   *)
(* framing, stripping and prefix tests of the source are computed.         *)
(* Every command and every unit the device emits carries a serial number   *)
(* (id, uid) and every unit the id of the command it answers (for): they   *)
(* tell instances apart and are never read by the modelled code.           *)
(***************************************************************************)
EXTENDS Integers, Sequences, FiniteSets, TLC

\* ------------------------------------------------------------------ bounds
\* command() calls per behaviour
MaxCmds == 2
\* connect() calls per behaviour
MaxConnects == 2
\* transport failures (open/send/receive raising) per behaviour
MaxFaults == 1
\* the same three, for the serial connection of the table
MaxGrblCmds == 4
MaxGrblConnects == 1
MaxGrblFaults == 0
\* the same three, for the request cycles of the serial connection
CycleGrblCmds == 2
CycleGrblConnects == 1
CycleGrblFaults == 0
\* the same three, for the connect / disconnect life cycle of an engine
LifeCmds == 1
LifeConnects == 2
LifeFaults == 1
\* Measurement: method calls per behaviour, positions of a scan, failures of
\* the devices
MaxCalls == 3
MaxPositions == 2
MaxDeviceFaults == 1
\* Table settings: accesses per behaviour, failed queries
MaxAccesses == 4
MaxQueryFaults == 1
\* DataSocket: acquisitions per behaviour, connection faults, channels of the
\* device, data points requested
MaxAcquires == 1
MaxDataFaults == 1
MaxChannels == 2
MaxDataPoints == 3
\* the same three, for the behaviours checked for termination
LiveCmds == 1
LiveConnects == 1
LiveFaults == 1

\* ------------------------------------------------------------ engine kinds
Kinds == {"SCPISocket", "ControlSocket"}

\* "main" owns the engine (connect, disconnect, command); "aux" is a second
\* thread of the caller that only submits commands.
Callers == {"main", "aux"}

\* --------------------------------------------------------------- text
StartsWith(s, p) == Len(p) <= Len(s) /\ SubSeq(s, 1, Len(p)) = p

EndsWith(s, p) == Len(p) <= Len(s) /\ SubSeq(s, Len(s) - Len(p) + 1, Len(s)) = p

Contains(s, p) == \E k \in 0..(Len(s) - Len(p)) : SubSeq(s, k + 1, k + Len(p)) = p

\* str.replace(ch, "") for each ch of chars
RemoveChars(s, chars) == SelectSeq(s, LAMBDA x : x \notin chars)

RECURSIVE LStrip(_, _)
LStrip(s, chars) ==
    IF s # <<>> /\ Head(s) \in chars THEN LStrip(Tail(s), chars) ELSE s

RECURSIVE RStrip(_, _)
RStrip(s, chars) ==
    IF s # <<>> /\ s[Len(s)] \in chars
    THEN RStrip(SubSeq(s, 1, Len(s) - 1), chars)
    ELSE s

\* str.strip(chars)
Strip(s, chars) == RStrip(LStrip(s, chars), chars)

CRLF == <<"\r", "\n">>
CRLFChars == {"\r", "\n"}

UNKNOWN_COMMAND ==
    <<"$", "U", "N", "K", "N", "O", "W", "N", " ", "C", "O", "M", "M", "A", "N", "D">>
WRONG_PARAMETER ==
    <<"$", "W", "R", "O", "N", "G", " ", "P", "A", "R", "A", "M", "E", "T", "E", "R">>
OK == <<"O", "K">>

\* Commands the facades submit: Controller.set_sampling_time ("STI<n>") for the
\* control socket, DataLogger.get_data / reset_display for the SCPI socket.
ControlCommands == { <<"S", "T", "I", "2">>, <<"S", "T", "I", "2", "5">> }
SCPICalls ==
    { [text |-> <<"route:mon:data", "?">>, get_response |-> TRUE],
      [text |-> <<"display:text:clear">>, get_response |-> FALSE] }

NoCmd == [id |-> 0, text |-> <<>>]
NoUnit == [uid |-> 0, for |-> 0, forText |-> <<>>, data |-> <<>>, raw |-> <<>>]

\* ------------------------------------------------ grbl text (table.py)
Digit == {"0", "1", "2", "3", "4", "5", "6", "7", "8", "9"}
Upper ==
    {"A", "B", "C", "D", "E", "F", "G", "H", "I", "J", "K", "L", "M",
     "N", "O", "P", "Q", "R", "S", "T", "U", "V", "W", "X", "Y", "Z"}
Lower ==
    {"a", "b", "c", "d", "e", "f", "g", "h", "i", "j", "k", "l", "m",
     "n", "o", "p", "q", "r", "s", "t", "u", "v", "w", "x", "y", "z"}

\* s[n:]
Drop(s, n) == SubSeq(s, n + 1, Len(s))

\* s[:n]
Take(s, n) == SubSeq(s, 1, n)

\* Length of the longest prefix of s made of characters of class: what a
\* greedy class+ or class* consumes.
RECURSIVE RunLen(_, _)
RunLen(s, class) ==
    IF s # <<>> /\ Head(s) \in class THEN 1 + RunLen(Tail(s), class) ELSE 0

\* Index of the last occurrence of character ch in s, 0 if there is none.
RECURSIVE LastIndex(_, _)
LastIndex(s, ch) ==
    IF s = <<>> THEN 0
    ELSE IF s[Len(s)] = ch THEN Len(s)
    ELSE LastIndex(Take(s, Len(s) - 1), ch)

\* "".join(chars)
RECURSIVE Join(_)
Join(s) == IF s = <<>> THEN "" ELSE Head(s) \o Join(Tail(s))

\* str.split(","): the fields between the commas
RECURSIVE Split(_, _)
Split(s, ch) ==
    LET n == RunLen(s, {x \in {s[k] : k \in DOMAIN s} : x # ch})
    IN IF n = Len(s) THEN <<s>>
       ELSE <<Take(s, n)>> \o Split(Drop(s, n + 1), ch)

ToLower ==
    [x \in Upper |->
        CASE x = "A" -> "a" [] x = "B" -> "b" [] x = "C" -> "c" [] x = "D" -> "d"
          [] x = "E" -> "e" [] x = "F" -> "f" [] x = "G" -> "g" [] x = "H" -> "h"
          [] x = "I" -> "i" [] x = "J" -> "j" [] x = "K" -> "k" [] x = "L" -> "l"
          [] x = "M" -> "m" [] x = "N" -> "n" [] x = "O" -> "o" [] x = "P" -> "p"
          [] x = "Q" -> "q" [] x = "R" -> "r" [] x = "S" -> "s" [] x = "T" -> "t"
          [] x = "U" -> "u" [] x = "V" -> "v" [] x = "W" -> "w" [] x = "X" -> "x"
          [] x = "Y" -> "y" [] x = "Z" -> "z"]

\* str.lower()
LowerCase(s) == [k \in DOMAIN s |-> IF s[k] \in Upper THEN ToLower[s[k]] ELSE s[k]]

\* The outcome of pattern.match(msg): whether the pattern matches a prefix of
\* msg and, if so, match.groups().
NoMatch == [matched |-> FALSE, groups |-> <<>>]
Match(groups) == [matched |-> TRUE, groups |-> groups]

T_ok == <<"o", "k">>
T_error == <<"e", "r", "r", "o", "r", ":">>
T_Grbl == <<"G", "r", "b", "l", " ">>
T_help == <<" ", "[", "'", "$", "'", " ", "f", "o", "r", " ", "h", "e", "l", "p", "]">>
T_ALARM == <<"A", "L", "A", "R", "M", ":">>
T_MPos == <<"M", "P", "o", "s">>
T_WPos == <<"W", "P", "o", "s">>

\* ------------------------------------ SerialConnection.regex (table.py)
\* 'ok': r"ok"
Match_ok(msg) == IF StartsWith(msg, T_ok) THEN Match(<<>>) ELSE NoMatch

\* 'error': r"error:(\d+)"
Match_error(msg) ==
    LET rest == Drop(msg, Len(T_error))
        n == RunLen(rest, Digit)
    IN IF StartsWith(msg, T_error) /\ n >= 1
       THEN Match(<<Take(rest, n)>>)
       ELSE NoMatch

\* 'welcome_message': r"Grbl (\d+\.\d+[a-z]) \['\$' for help]"
Match_welcome_message(msg) ==
    LET a == Drop(msg, Len(T_Grbl))
        n1 == RunLen(a, Digit)
        b == Drop(a, n1)
        c == Drop(b, 1)
        n2 == RunLen(c, Digit)
        d == Drop(c, n2)
    IN IF /\ StartsWith(msg, T_Grbl)
          /\ n1 >= 1
          /\ StartsWith(b, <<".">>)
          /\ n2 >= 1
          /\ d # <<>>
          /\ Head(d) \in Lower
          /\ StartsWith(Drop(d, 1), T_help)
       THEN Match(<<Take(a, n1 + 1 + n2 + 1)>>)
       ELSE NoMatch

\* 'alarm': r"ALARM:(\d)"
Match_alarm(msg) ==
    LET rest == Drop(msg, Len(T_ALARM))
    IN IF StartsWith(msg, T_ALARM) /\ rest # <<>> /\ Head(rest) \in Digit
       THEN Match(<<Take(rest, 1)>>)
       ELSE NoMatch

\* 'setting': r"\$(\d+)=(.+)"
Match_setting(msg) ==
    LET a == Drop(msg, 1)
        n == RunLen(a, Digit)
        b == Drop(a, n)
    IN IF /\ StartsWith(msg, <<"$">>)
          /\ n >= 1
          /\ StartsWith(b, <<"=">>)
          /\ Len(b) >= 2
       THEN Match(<<Take(a, n), Drop(b, 1)>>)
       ELSE NoMatch

\* 'startup_lines': r"\$N(0|1)=(.*)"
Match_startup_lines(msg) ==
    IF /\ StartsWith(msg, <<"$", "N">>)
       /\ Len(msg) >= 4
       /\ msg[3] \in {"0", "1"}
       /\ msg[4] = "="
    THEN Match(<<<<msg[3]>>, Drop(msg, 4)>>)
    ELSE NoMatch

\* 'message': r"\[([A-Z0-9]{2,3}:.+)\]"
Match_message(msg) ==
    LET a == Drop(msg, 1)
        n == RunLen(a, Upper \cup Digit)
        k == IF n = 3 /\ Len(a) >= 4 /\ a[4] = ":" THEN 3
             ELSE IF n = 2 /\ Len(a) >= 3 /\ a[3] = ":" THEN 2
             ELSE 0
        last == LastIndex(a, "]")
    IN IF StartsWith(msg, <<"[">>) /\ k > 0 /\ last >= k + 3
       THEN Match(<<Take(a, last - 1)>>)
       ELSE NoMatch

\* 'startup_execution': r">(.*):(ok|error:\d+)"
Match_startup_execution(msg) ==
    LET a == Drop(msg, 1)
        after(j) == Drop(a, j)
        js == {j \in DOMAIN a :
                 /\ a[j] = ":"
                 /\ \/ StartsWith(after(j), T_ok)
                    \/ Match_error(after(j)).matched}
        j == CHOOSE x \in js : \A y \in js : y <= x
        result == IF StartsWith(after(j), T_ok)
                  THEN T_ok
                  ELSE T_error \o Match_error(after(j)).groups[1]
    IN IF StartsWith(msg, <<">">>) /\ js # {}
       THEN Match(<<Take(a, j - 1), result>>)
       ELSE NoMatch

\* 'status': r"<([A-Za-z0-9:]{3,5})\|(MPos|WPos):([0-9.,-]+)(|\|.*)>"
Match_status(msg) ==
    LET a == Drop(msg, 1)
        n == RunLen(a, Upper \cup Lower \cup Digit \cup {":"})
        c == Drop(a, n + 1)
        e == Drop(c, 5)
        m == RunLen(e, Digit \cup {".", ",", "-"})
        f == Drop(e, m)
        last == LastIndex(f, ">")
    IN IF /\ StartsWith(msg, <<"<">>)
          /\ n >= 3
          /\ n <= 5
          /\ StartsWith(Drop(a, n), <<"|">>)
          /\ StartsWith(c, T_MPos) \/ StartsWith(c, T_WPos)
          /\ StartsWith(Drop(c, 4), <<":">>)
          /\ m >= 1
          /\ StartsWith(f, <<">">>) \/ (StartsWith(f, <<"|">>) /\ last >= 2)
       THEN Match(<<Take(a, n), Take(c, 4), Take(e, m),
                    IF StartsWith(f, <<">">>) THEN <<>> ELSE Take(f, last - 1)>>)
       ELSE NoMatch

\* 'empty': r"^$"
Match_empty(msg) == IF msg = <<>> THEN Match(<<>>) ELSE NoMatch

\* The keys of the regex dictionary, in the order it is written.
regex ==
    <<"ok", "error", "welcome_message", "alarm", "setting", "startup_lines",
      "message", "startup_execution", "status", "empty">>

PatternMatch(key, msg) ==
    CASE key = "ok" -> Match_ok(msg)
      [] key = "error" -> Match_error(msg)
      [] key = "welcome_message" -> Match_welcome_message(msg)
      [] key = "alarm" -> Match_alarm(msg)
      [] key = "setting" -> Match_setting(msg)
      [] key = "startup_lines" -> Match_startup_lines(msg)
      [] key = "message" -> Match_message(msg)
      [] key = "startup_execution" -> Match_startup_execution(msg)
      [] key = "status" -> Match_status(msg)
      [] key = "empty" -> Match_empty(msg)

\* for key, pattern in self.regex.items(): the first key whose pattern
\* matches, with the groups of the match; key "none" when no pattern does.
RECURSIVE FirstMatch(_, _)
FirstMatch(keys, msg) ==
    IF keys = <<>> THEN [key |-> "none", groups |-> <<>>]
    ELSE IF PatternMatch(Head(keys), msg).matched
         THEN [key |-> Head(keys), groups |-> PatternMatch(Head(keys), msg).groups]
         ELSE FirstMatch(Tail(keys), msg)

UnrecognizedAsMessage(msg) ==
    IF FirstMatch(regex, msg).key = "none"
    THEN [key |-> "message", groups |-> <<msg>>]
    ELSE FirstMatch(regex, msg)

\* SerialConnection._message_parser: the (key, groups) message of a line; key
\* "none" stands for raising ConnectionError("Unrecognized response ...").
SerialConnection_message_parser(msg) == FirstMatch(regex, msg)

\* Lines handed to the parser: every head followed by every tail.
SampleHeads ==
    { <<>>,
      <<"o", "k">>,
      <<"e", "r", "r", "o", "r", ":">>,
      <<"G", "r", "b", "l", " ", "1", ".", "1", "f">>,
      <<"G", "r", "b", "l", " ", "1", ".">>,
      <<"A", "L", "A", "R", "M", ":">>,
      <<"$">>,
      <<"$", "N">>,
      <<"[">>,
      <<"[", "M", "S", "G", ":">>,
      <<">">>,
      <<">", "G", "1", ":">>,
      <<"<">>,
      <<"<", "I", "d", "l", "e", "|">>,
      <<"<", "H", "o", "l", "d", ":", "0", "|">>,
      <<"<", "R", "u", "n", "|", "M", "P", "o", "s", ":">> }

SampleTails ==
    { <<>>,
      <<"3">>,
      <<"1", "2">>,
      <<"0", "=", "5">>,
      <<"=", "x">>,
      <<"1", "=", "G", "1">>,
      <<"M", "S", "G", ":", "x", "]">>,
      <<"o", "k">>,
      <<":", "o", "k">>,
      <<"e", "r", "r", "o", "r", ":", "7">>,
      <<"I", "d", "l", "e", "|", "M", "P", "o", "s", ":", "1", ",", "2", ",", "0", ">">>,
      <<"R", "u", "n", "|", "W", "P", "o", "s", ":", "1", ",", "2", "|", "F", "S", ":", "0", ">">>,
      <<"M", "P", "o", "s", ":", "3", ",", "4", ">">>,
      <<" ", "[", "'", "$", "'", " ", "f", "o", "r", " ", "h", "e", "l", "p", "]">>,
      <<"1", ",", "2", ",", "0", "|", "P", "n", ":", "X", ">", "x">>,
      <<"x">> }

SampleLines == {h \o t : h \in SampleHeads, t \in SampleTails}

\* ---------------------------------------------------------------- state
VARIABLES
    kind,        \* the engine's class
    stop,        \* IOBase._stop / ControlSocket._stop_flag
    transport,   \* "none" | "unconnected" | "open" | "closed"
    threads,     \* IOBase.threads / ControlSocket.io_threads
    out_queue,   \* outbound FIFO of commands
    in_queue,    \* inbound FIFO of units
    wire_out,    \* frames sent, not yet read by the device
    wire_in,     \* units emitted by the device, not yet received
    caller,      \* per caller: the call it is in and its last outcome
    nextId,      \* serial number of the next command
    nextUid,     \* serial number of the next unit
    nConnects,   \* connect() calls so far
    faults,      \* transport failures so far
    limit,       \* how many commands, connects and faults a behaviour has
    connected,   \* Device.connected
    attributes,  \* instance attributes set by cached_property
    sent,        \* history: ids handed to the transport's send, in order
    received,    \* history: uids the input loop enqueued, in order
    delivered,   \* history: uids dequeued by command(), in order
    drained,     \* history: uids discarded by an exiting loop's drain
    timedOut     \* history: ids of commands that failed with a timeout

engineVars == <<kind, stop, transport, threads, out_queue, in_queue>>
wireVars == <<wire_out, wire_in>>
countVars == <<nextId, nextUid, nConnects, faults, limit, connected, attributes>>
histVars == <<sent, received, delivered, drained, timedOut>>
vars == <<engineVars, wireVars, caller, countVars, histVars>>

IdleCaller ==
    [pc |-> "idle", op |-> "none", cmd |-> NoCmd, i |-> 0, status |-> "none",
     exc |-> "none", answer |-> NoUnit, owed |-> {}, overlap |-> FALSE,
     proc |-> "none", stage |-> "none", answers |-> <<>>, result |-> <<>>,
     returned |-> <<>>, moveId |-> 0]

Constructed ==
    /\ kind \in Kinds
    /\ stop = FALSE
    /\ transport = "none"
    /\ threads = <<>>
    /\ out_queue = <<>>
    /\ in_queue = <<>>
    /\ wire_out = <<>>
    /\ wire_in = <<>>
    /\ caller = [c \in Callers |-> IdleCaller]
    /\ nextId = 1
    /\ nextUid = 1
    /\ nConnects = 0
    /\ faults = 0
    /\ sent = <<>>
    /\ received = <<>>
    /\ delivered = <<>>
    /\ drained = {}
    /\ timedOut = {}
    /\ connected = FALSE
    /\ attributes = <<>>

Init ==
    /\ Constructed
    /\ limit = [cmds |-> MaxCmds, connects |-> MaxConnects, faults |-> MaxFaults]

InitLive ==
    /\ Constructed
    /\ limit = [cmds |-> LiveCmds, connects |-> LiveConnects, faults |-> LiveFaults]


\* -------------------------------------------------------------- threads
\* A worker thread: the loop it runs (target), where it is in it (pc), the
\* command its output loop holds between get and send (cmd), the exception
\* that ended its run (error), the id of the command whose answer made the
\* loop raise it (cause) and, for an ExceptionThread, the queue its run()
\* stores that exception in until join() re-raises it.
NewThread(tgt) ==
    [target |-> tgt, pc |-> "top", cmd |-> NoCmd, error |-> "none", cause |-> 0,
     exception_queue |-> <<>>, reported |-> FALSE]

\* ExceptionThread.run: an exception leaving the target is put into
\* exception_queue.  ControlSocket starts plain threading.Thread objects: the
\* exception ends the thread and is stored nowhere.
ThreadRaises(t, e) ==
    [t EXCEPT !.pc = "done", !.cmd = NoCmd, !.error = e,
              !.exception_queue = IF kind = "SCPISocket" THEN <<e>> ELSE <<>>]

ThreadReturns(t) == [t EXCEPT !.pc = "done", !.cmd = NoCmd]

Uids(q) == {q[k].uid : k \in DOMAIN q}

\* The exceptions that ended a loop and that no caller has been handed yet.
UnreportedErrors ==
    {threads[k].error : k \in {j \in DOMAIN threads : ~threads[j].reported}}
        \ {"none"}

ReceiveBlocks == FALSE

\* A timed receive with nothing arriving gives up (returns None / b"").
ReceiveTimesOut == wire_in = <<>>

\* SCPISocket._send: cmd += "\n"
SCPIFrame(cmd) == [id |-> cmd.id, bytes |-> cmd.text \o <<"\n">>]

\* ControlSocket._output: strip CR and LF, frame as $<cmd>\r\n
ControlFrame(cmd) ==
    [id |-> cmd.id, bytes |-> <<"$">> \o RemoveChars(cmd.text, CRLFChars) \o CRLF]

PutFront(q, x) == <<x>> \o q

\* queue.Queue: put() appends, get() takes the oldest item.
Put(q, x) == Append(q, x)

DequeueNewest(q) == [item |-> q[Len(q)], rest |-> SubSeq(q, 1, Len(q) - 1)]

Dequeue(q) == [item |-> Head(q), rest |-> Tail(q)]

\* ------------------------------------------------- IOBase._output (base.py)
\* top: "while not self._stop.is_set()", and the drain once it is set;
\* get: "self.out_queue.get(timeout=self.timeout)"; send: "self._send(cmd)".
IOBase_output(i) ==
    LET t == threads[i] IN
    /\ kind = "SCPISocket"
    /\ i \in DOMAIN threads
    /\ t.target = "output"
    /\ \/ /\ t.pc = "top"
          /\ IF stop
             THEN /\ out_queue' = <<>>
                  /\ threads' = [threads EXCEPT ![i] = ThreadReturns(t)]
             ELSE /\ threads' = [threads EXCEPT ![i].pc = "get"]
                  /\ UNCHANGED out_queue
          /\ UNCHANGED <<wire_out, sent, faults>>
       \/ /\ t.pc = "get"
          /\ IF out_queue # <<>>
             THEN /\ threads' = [threads EXCEPT ![i].pc = "send",
                                                ![i].cmd = Dequeue(out_queue).item]
                  /\ out_queue' = Dequeue(out_queue).rest
             ELSE /\ threads' = [threads EXCEPT ![i].pc = "top"]
                  /\ UNCHANGED out_queue
          /\ UNCHANGED <<wire_out, sent, faults>>
       \/ /\ t.pc = "send"
          /\ \/ /\ wire_out' = Append(wire_out, SCPIFrame(t.cmd))
                /\ sent' = Append(sent, t.cmd.id)
                /\ threads' = [threads EXCEPT ![i].pc = "top", ![i].cmd = NoCmd]
                /\ UNCHANGED faults
             \/ /\ faults < limit.faults
                /\ faults' = faults + 1
                /\ threads' = [threads EXCEPT
                                 ![i] = ThreadRaises(t, "DataLoggerError")]
                /\ UNCHANGED <<wire_out, sent>>
          /\ UNCHANGED out_queue
    /\ UNCHANGED <<kind, stop, transport, in_queue, wire_in, caller, nextId,
                   nextUid, nConnects, limit, connected, attributes, received, delivered, drained,
                   timedOut>>

TimeoutEscapes(t) == ThreadRaises(t, "socket.timeout")

\* SCPISocket._receive catches socket.timeout and returns None, which
\* IOBase._input does not put ("if data is not None"): the loop goes on.
SCPISocket_receive_timeout(t) == [t EXCEPT !.pc = "top"]

\* -------------------------------------------------- IOBase._input (base.py)
\* recv: "data = self._receive()" and the put of what it returned.
\* SCPISocket._receive returns None on socket.timeout; any other OSError
\* leaves the loop.
IOBase_input(i) ==
    LET t == threads[i] IN
    /\ kind = "SCPISocket"
    /\ i \in DOMAIN threads
    /\ t.target = "input"
    /\ \/ /\ t.pc = "top"
          /\ IF stop
             THEN /\ in_queue' = <<>>
                  /\ drained' = drained \cup Uids(in_queue)
                  /\ threads' = [threads EXCEPT ![i] = ThreadReturns(t)]
             ELSE /\ threads' = [threads EXCEPT ![i].pc = "recv"]
                  /\ UNCHANGED <<in_queue, drained>>
          /\ UNCHANGED <<wire_in, received, faults>>
       \/ /\ t.pc = "recv"
          /\ \/ /\ wire_in # <<>>
                /\ in_queue' = Put(in_queue, Head(wire_in))
                /\ received' = Append(received, Head(wire_in).uid)
                /\ wire_in' = Tail(wire_in)
                /\ threads' = [threads EXCEPT ![i].pc = "top"]
                /\ UNCHANGED faults
             \/ /\ ReceiveTimesOut
                /\ threads' = [threads EXCEPT ![i] = SCPISocket_receive_timeout(t)]
                /\ UNCHANGED <<wire_in, in_queue, received, faults>>
             \/ /\ faults < limit.faults
                /\ faults' = faults + 1
                /\ threads' = [threads EXCEPT ![i] = ThreadRaises(t, "OSError")]
                /\ UNCHANGED <<wire_in, in_queue, received>>
          /\ UNCHANGED drained
    /\ UNCHANGED <<kind, stop, transport, out_queue, wire_out, caller, nextId,
                   nextUid, nConnects, limit, connected, attributes, sent, delivered, timedOut>>

\* ------------------------------------ ControlSocket._output (controller.py)
ControlSocket_output(i) ==
    LET t == threads[i] IN
    /\ kind = "ControlSocket"
    /\ i \in DOMAIN threads
    /\ t.target = "output"
    /\ \/ /\ t.pc = "top"
          /\ threads' = [threads EXCEPT
                           ![i] = IF stop THEN ThreadReturns(t)
                                          ELSE [t EXCEPT !.pc = "get"]]
          /\ UNCHANGED <<out_queue, wire_out, sent, faults>>
       \/ /\ t.pc = "get"
          /\ IF out_queue # <<>>
             THEN /\ threads' = [threads EXCEPT ![i].pc = "send",
                                                ![i].cmd = Dequeue(out_queue).item]
                  /\ out_queue' = Dequeue(out_queue).rest
             ELSE /\ threads' = [threads EXCEPT ![i].pc = "top"]
                  /\ UNCHANGED out_queue
          /\ UNCHANGED <<wire_out, sent, faults>>
       \/ /\ t.pc = "send"
          /\ \/ /\ wire_out' = Append(wire_out, ControlFrame(t.cmd))
                /\ sent' = Append(sent, t.cmd.id)
                /\ threads' = [threads EXCEPT ![i].pc = "top", ![i].cmd = NoCmd]
                /\ UNCHANGED faults
             \/ /\ faults < limit.faults
                /\ faults' = faults + 1
                /\ threads' = [threads EXCEPT ![i] = ThreadRaises(t, "OSError")]
                /\ UNCHANGED <<wire_out, sent>>
          /\ UNCHANGED out_queue
    /\ UNCHANGED <<kind, stop, transport, in_queue, wire_in, caller, nextId,
                   nextUid, nConnects, limit, connected, attributes, received, delivered, drained,
                   timedOut>>

\* ------------------------------------- ControlSocket._input (controller.py)
\* What the loop does with one received line: the exception it raises, or
\* "none" when the line is enqueued.
ControlSocket_classify(line) ==
    IF Contains(line, UNKNOWN_COMMAND) THEN "UnknownCommandError"
    ELSE IF Contains(line, WRONG_PARAMETER) THEN "WrongParameterError"
    ELSE IF EndsWith(line, OK) THEN "none"
    ELSE "ControllerError: Unexpected response"

\* line[:-2]
StripOK(line) == SubSeq(line, 1, Len(line) - 2)

\* recv: read_until(b"\n", timeout) gives a line, or b"" when none arrived in
\* time, or raises EOFError when the connection is gone.
ControlSocket_input(i) ==
    LET t == threads[i] IN
    /\ kind = "ControlSocket"
    /\ i \in DOMAIN threads
    /\ t.target = "input"
    /\ \/ /\ t.pc = "top"
          /\ threads' = [threads EXCEPT
                           ![i] = IF stop THEN ThreadReturns(t)
                                          ELSE [t EXCEPT !.pc = "recv"]]
          /\ UNCHANGED <<wire_in, in_queue, received, faults>>
       \/ /\ t.pc = "recv"
          /\ \/ /\ wire_in # <<>>
                /\ LET u == Head(wire_in)
                       line == Strip(u.data, CRLFChars)
                       e == ControlSocket_classify(line)
                   IN IF e = "none"
                      THEN /\ in_queue' = Put(in_queue,
                                [u EXCEPT !.data = StripOK(line)])
                           /\ received' = Append(received, u.uid)
                           /\ threads' = [threads EXCEPT ![i].pc = "top"]
                      ELSE /\ threads' = [threads EXCEPT ![i] =
                                            [ThreadRaises(t, e) EXCEPT !.cause = u.for]]
                           /\ UNCHANGED <<in_queue, received>>
                /\ wire_in' = Tail(wire_in)
                /\ UNCHANGED faults
             \/ /\ ReceiveTimesOut
                /\ threads' = [threads EXCEPT ![i].pc = "top"]
                /\ UNCHANGED <<wire_in, in_queue, received, faults>>
             \/ /\ faults < limit.faults
                /\ faults' = faults + 1
                /\ threads' = [threads EXCEPT ![i] = ThreadRaises(t, "EOFError")]
                /\ UNCHANGED <<wire_in, in_queue, received>>
    /\ UNCHANGED <<kind, stop, transport, out_queue, wire_out, caller, nextId,
                   nextUid, nConnects, limit, connected, attributes, sent, delivered, drained, timedOut>>

\* --------------------------------------------------------------- callers
\* The caller enters a call: what it was owed (a loop's exception nobody has
\* been handed) is noted for the call's outcome.
Enter(c, op, cmd, pc) ==
    [caller[c] EXCEPT !.pc = pc, !.op = op, !.cmd = cmd, !.i = 1,
                      !.status = "running", !.exc = "none", !.answer = NoUnit,
                      !.owed = UnreportedErrors, !.overlap = FALSE]

Returns(r, answer) ==
    [r EXCEPT !.pc = "idle", !.status = "returned", !.answer = answer]

Raises(r, e) == [r EXCEPT !.pc = "idle", !.status = "raised", !.exc = e]

StartThreads == threads \o <<NewThread("input"), NewThread("output")>>

SocketStaysNone == "none"

\* SCPISocket._open assigns self.socket before it connects it: after a failed
\* connect the attribute holds a socket object that was never connected.
SCPISocket_open_failed == "unconnected"

\* --------------------------------------------------- IOBase.connect (base.py)
\* SCPISocket._open creates the socket and connects it; an OSError becomes a
\* DataLoggerError and no thread is started.
IOBase_connect(c) ==
    /\ kind = "SCPISocket"
    /\ caller[c].pc = "idle"
    /\ nConnects < limit.connects
    /\ nConnects' = nConnects + 1
    /\ stop' = FALSE
    /\ \/ /\ transport' = "open"
          /\ threads' = StartThreads
          /\ caller' = [caller EXCEPT
                          ![c] = Returns(Enter(c, "connect", NoCmd, "idle"), NoUnit)]
          /\ UNCHANGED faults
       \/ /\ faults < limit.faults
          /\ faults' = faults + 1
          /\ transport' = SCPISocket_open_failed
          /\ caller' = [caller EXCEPT
                          ![c] = Raises(Enter(c, "connect", NoCmd, "idle"),
                                        "DataLoggerError")]
          /\ UNCHANGED threads
    /\ wire_out' = <<>>
    /\ wire_in' = <<>>
    /\ UNCHANGED <<kind, out_queue, in_queue, nextId, nextUid, limit, connected, attributes, histVars>>

\* ------------------------------------- ControlSocket.connect (controller.py)
\* Guarded by "if not self.io_threads"; open() failing or the connection
\* closing while the greeting is read raises ControllerError before any
\* thread is started.
ControlSocket_connect(c) ==
    /\ kind = "ControlSocket"
    /\ caller[c].pc = "idle"
    /\ nConnects < limit.connects
    /\ nConnects' = nConnects + 1
    /\ IF threads # <<>>
       THEN /\ caller' = [caller EXCEPT
                            ![c] = Returns(Enter(c, "connect", NoCmd, "idle"), NoUnit)]
            /\ UNCHANGED <<stop, transport, threads, faults, wire_out, wire_in>>
       ELSE /\ stop' = FALSE
            /\ wire_out' = <<>>
            /\ wire_in' = <<>>
            /\ \/ /\ transport' = "open"
                  /\ threads' = StartThreads
                  /\ caller' = [caller EXCEPT
                                  ![c] = Returns(Enter(c, "connect", NoCmd, "idle"),
                                                 NoUnit)]
                  /\ UNCHANGED faults
               \/ /\ faults < limit.faults
                  /\ faults' = faults + 1
                  /\ transport' \in {"unconnected", "open"}
                  /\ caller' = [caller EXCEPT
                                  ![c] = Raises(Enter(c, "connect", NoCmd, "idle"),
                                                "ControllerError: Could not connect")]
                  /\ UNCHANGED threads
    /\ UNCHANGED <<kind, out_queue, in_queue, nextId, nextUid, limit, connected, attributes, histVars>>

\* ---------------------- IOBase.disconnect / ControlSocket.disconnect
\* self._stop.set() / self._stop_flag = True
Disconnect_stop(c) ==
    /\ caller[c].pc = "idle"
    /\ stop' = TRUE
    /\ caller' = [caller EXCEPT ![c] = Enter(c, "disconnect", NoCmd, "join")]
    /\ UNCHANGED <<kind, transport, threads, out_queue, in_queue, wireVars,
                   countVars, histVars>>

JoinedWithoutWaiting(i) == TRUE

\* Thread.join blocks until the thread has terminated.
Joined(i) == threads[i].pc = "done"

\* for thread in self.threads: thread.join().  ExceptionThread.join re-raises
\* the exception its run() stored, which leaves disconnect() at that thread.
Disconnect_join(c) ==
    LET i == caller[c].i IN
    /\ caller[c].pc = "join"
    /\ i \in DOMAIN threads
    /\ Joined(i)
    /\ IF threads[i].exception_queue # <<>>
       THEN /\ threads' = [threads EXCEPT ![i].exception_queue = <<>>,
                                          ![i].reported = TRUE]
            /\ caller' = [caller EXCEPT
                            ![c] = Raises(caller[c], Head(threads[i].exception_queue))]
       ELSE /\ caller' = [caller EXCEPT ![c].i = i + 1]
            /\ UNCHANGED threads
    /\ UNCHANGED <<kind, stop, transport, out_queue, in_queue, wireVars,
                   countVars, histVars>>

\* self.threads.clear(); self._close().  The socket attribute is None until
\* the first connect(): close() on it raises AttributeError.
Disconnect_close(c) ==
    /\ caller[c].pc = "join"
    /\ caller[c].i > Len(threads)
    /\ threads' = <<>>
    /\ IF transport = "none"
       THEN /\ caller' = [caller EXCEPT ![c] = Raises(caller[c], "AttributeError")]
            /\ UNCHANGED <<transport, wireVars>>
       ELSE /\ transport' = "closed"
            /\ wire_out' = <<>>
            /\ wire_in' = <<>>
            /\ caller' = [caller EXCEPT ![c] = Returns(caller[c], NoUnit)]
    /\ UNCHANGED <<kind, stop, out_queue, in_queue, countVars, histVars>>

\* Another caller is blocked in command() waiting for a response.
OthersAwaiting(c) == {d \in Callers \ {c} : caller[d].pc = "await"}

\* --------------------------------------------------- IOBase.command (base.py)
\* A command() that enqueues its command although the stop signal is set
IOBase_command_puts_anyway(c, cmd) ==
    /\ caller' = [caller EXCEPT
                    ![c] = Returns(Enter(c, "command", cmd, "idle"), NoUnit)]
    /\ out_queue' = Put(out_queue, cmd)

\* The stop signal is set: `if not self._stop.is_set()` skips the body and
\* command() returns None.
IOBase_command_stopped(c, cmd) ==
    /\ caller' = [caller EXCEPT
                    ![c] = Returns(Enter(c, "command", cmd, "idle"), NoUnit)]
    /\ UNCHANGED out_queue

IOBase_command(c) ==
    /\ kind = "SCPISocket"
    /\ caller[c].pc = "idle"
    /\ nextId <= limit.cmds
    /\ nextId' = nextId + 1
    /\ \E call \in SCPICalls :
         LET cmd == [id |-> nextId, text |-> call.text]
             get_response == call.get_response
         IN
         IF stop
         THEN IOBase_command_stopped(c, cmd)
         ELSE /\ out_queue' = Put(out_queue, cmd)
              /\ IF get_response
                 THEN caller' = [d \in Callers |->
                        IF d = c
                        THEN [Enter(c, "command", cmd, "await")
                                EXCEPT !.overlap = OthersAwaiting(c) # {}]
                        ELSE IF d \in OthersAwaiting(c)
                             THEN [caller[d] EXCEPT !.overlap = TRUE]
                             ELSE caller[d]]
                 ELSE caller' = [caller EXCEPT
                        ![c] = Returns(Enter(c, "command", cmd, "idle"), NoUnit)]
    /\ UNCHANGED <<kind, stop, transport, threads, in_queue, wireVars, nextUid,
                   nConnects, faults, limit, connected, attributes, histVars>>

\* except queue.Empty: raise TimeoutError(...)
IOBase_command_timeout_stops(c) ==
    /\ timedOut' = timedOut \cup {caller[c].cmd.id}
    /\ caller' = [caller EXCEPT ![c] = Raises(caller[c], "TimeoutError")]
    /\ stop' = TRUE
    /\ UNCHANGED <<in_queue, delivered>>

IOBase_command_timeout(c) ==
    /\ timedOut' = timedOut \cup {caller[c].cmd.id}
    /\ caller' = [caller EXCEPT ![c] = Raises(caller[c], "TimeoutError")]
    /\ UNCHANGED <<stop, in_queue, delivered>>

\* answer = self.in_queue.get(timeout=timeout): the oldest unit of the inbound
\* queue, or TimeoutError when the queue stays empty.
IOBase_command_wait(c) ==
    /\ kind = "SCPISocket"
    /\ caller[c].pc = "await"
    /\ IF in_queue # <<>>
       THEN /\ in_queue' = Dequeue(in_queue).rest
            /\ delivered' = Append(delivered, Dequeue(in_queue).item.uid)
            /\ caller' = [caller EXCEPT
                            ![c] = Returns(caller[c], Dequeue(in_queue).item)]
            /\ UNCHANGED <<stop, timedOut>>
       ELSE IOBase_command_timeout(c)
    /\ UNCHANGED <<kind, transport, threads, out_queue, wireVars, countVars,
                   sent, received, drained>>

\* ------------------------------------- ControlSocket.command (controller.py)
ControlSocket_command(c) ==
    /\ kind = "ControlSocket"
    /\ caller[c].pc = "idle"
    /\ nextId <= limit.cmds
    /\ nextId' = nextId + 1
    /\ \E text \in ControlCommands :
         LET cmd == [id |-> nextId, text |-> text] IN
         /\ out_queue' = Put(out_queue, cmd)
         /\ caller' = [d \in Callers |->
              IF d = c
              THEN [Enter(c, "command", cmd, "await")
                      EXCEPT !.overlap = OthersAwaiting(c) # {}]
              ELSE IF d \in OthersAwaiting(c)
                   THEN [caller[d] EXCEPT !.overlap = TRUE]
                   ELSE caller[d]]
    /\ UNCHANGED <<kind, stop, transport, threads, in_queue, wireVars, nextUid,
                   nConnects, faults, limit, connected, attributes, histVars>>

StripEchoAndDollar(answer, cmd) == SubSeq(answer, Len(cmd) + 3, Len(answer))

\* answer[len(cmd) + 1:]
StripEcho(answer, cmd) == SubSeq(answer, Len(cmd) + 2, Len(answer))

\* The answer must start with "$" + cmd; what follows the echo is returned.
\* An empty queue after the timeout raises ControllerError("No response ...").
ControlSocket_command_wait(c) ==
    LET cmd == caller[c].cmd.text
        u == Dequeue(in_queue).item
    IN
    /\ kind = "ControlSocket"
    /\ caller[c].pc = "await"
    /\ IF in_queue # <<>>
       THEN /\ in_queue' = Dequeue(in_queue).rest
            /\ delivered' = Append(delivered, u.uid)
            /\ caller' = [caller EXCEPT ![c] =
                 IF StartsWith(u.data, <<"$">> \o cmd)
                 THEN Returns(caller[c],
                        [u EXCEPT !.data = StripEcho(u.data, cmd)])
                 ELSE Raises([caller[c] EXCEPT !.answer = u],
                             "ControllerError: Unexpected response on command")]
            /\ UNCHANGED timedOut
       ELSE /\ timedOut' = timedOut \cup {caller[c].cmd.id}
            /\ caller' = [caller EXCEPT ![c] = Raises(caller[c], "ControllerError: No response")]
            /\ UNCHANGED <<in_queue, delivered>>
    /\ UNCHANGED <<kind, stop, transport, threads, out_queue, wireVars, countVars,
                   sent, received, drained>>

\* ---------------------------------------------------------------- device
\* The command the device reads out of a frame.
SCPICommandOf(frame) == SubSeq(frame.bytes, 1, Len(frame.bytes) - 1)
ControlCommandOf(frame) == SubSeq(frame.bytes, 2, Len(frame.bytes) - 2)

\* The data logger answers a query (a command ending in "?") with a reading
\* and any other command with nothing.
SCPIResponses(cmd) ==
    IF cmd # <<>> /\ cmd[Len(cmd)] = "?" THEN { <<"+2.5E+01", "\n">> } ELSE {}

\* The lines ControlSocket._input tells apart: $<cmd><payload>OK,
\* $UNKNOWN COMMAND, $WRONG PARAMETER, and a line of any other shape.
ControlResponses(cmd) ==
    { <<"$">> \o cmd \o payload \o OK \o CRLF : payload \in { <<>>, <<"6">> } }
    \cup { UNKNOWN_COMMAND \o CRLF, WRONG_PARAMETER \o CRLF, <<"$", "?">> \o CRLF }

DeviceResponds ==
    /\ wire_out # <<>>
    /\ transport = "open"
    /\ LET frame == Head(wire_out)
           cmd == IF kind = "SCPISocket" THEN SCPICommandOf(frame)
                                         ELSE ControlCommandOf(frame)
           answers == IF kind = "SCPISocket" THEN SCPIResponses(cmd)
                                             ELSE ControlResponses(cmd)
       IN IF answers = {}
          THEN UNCHANGED <<wire_in, nextUid>>
          ELSE /\ \E data \in answers :
                    wire_in' = Append(wire_in, [uid |-> nextUid, for |-> frame.id,
                                                forText |-> cmd, data |-> data,
                                                raw |-> data])
               /\ nextUid' = nextUid + 1
    /\ wire_out' = Tail(wire_out)
    /\ UNCHANGED <<engineVars, caller, nextId, nConnects, faults, limit, connected, attributes, histVars>>

\* ------------------------------------------------------- specification
Loops ==
    \/ \E i \in DOMAIN threads : IOBase_output(i)
    \/ \E i \in DOMAIN threads : IOBase_input(i)
    \/ \E i \in DOMAIN threads : ControlSocket_output(i)
    \/ \E i \in DOMAIN threads : ControlSocket_input(i)

\* The engine is disconnected: no worker thread is left in the list and the
\* transport is not open.
Disconnected == threads = <<>> /\ transport # "open"

\* The owner follows the engine's life cycle: connect() is called on a
\* disconnected engine only.
OwnerCalls(c) ==
    \/ Disconnected /\ IOBase_connect(c)
    \/ Disconnected /\ ControlSocket_connect(c)
    \/ Disconnect_stop(c)
    \/ Disconnect_join(c)
    \/ Disconnect_close(c)

CommandCalls(c) ==
    \/ IOBase_command(c)
    \/ IOBase_command_wait(c)
    \/ ControlSocket_command(c)
    \/ ControlSocket_command_wait(c)

\* One caller thread: every call returns before the next is made.
Next ==
    \/ Loops
    \/ DeviceResponds
    \/ OwnerCalls("main")
    \/ CommandCalls("main")

Spec == Init /\ [][Next]_vars

\* A second caller thread submits commands while the owner is in a call.
NextOverlap ==
    \/ Next
    \/ CommandCalls("aux")

SpecOverlap == Init /\ [][NextOverlap]_vars


\* The owner calls connect() and disconnect() in any order.
InitLifecycle ==
    /\ Constructed
    /\ limit = [cmds |-> LifeCmds, connects |-> LifeConnects, faults |-> LifeFaults]

NextLifecycle ==
    \/ Loops
    \/ DeviceResponds
    \/ IOBase_connect("main")
    \/ ControlSocket_connect("main")
    \/ Disconnect_stop("main")
    \/ Disconnect_join("main")
    \/ Disconnect_close("main")
    \/ CommandCalls("main")

SpecLifecycle == InitLifecycle /\ [][NextLifecycle]_vars

\* ======================= Device and DataLogger (base.py, data_logger.py)
\* A DataLogger owns one SCPISocket engine; "main" is the thread that uses it.
InitLogger ==
    /\ Constructed
    /\ kind = "SCPISocket"
    /\ limit = [cmds |-> MaxCmds, connects |-> MaxConnects, faults |-> MaxFaults]

\* Caller c is inside reset_display's successor statement of _disconnect.
ResetDisplayReturned(c) ==
    caller[c].op = "reset_display" /\ caller[c].status = "returned"

\* Caller c is not inside a call on the device.
BetweenCalls(c) ==
    /\ caller[c].pc = "idle"
    /\ caller[c].op \notin {"Device.connect", "Device.disconnect"}
    /\ ~ResetDisplayReturned(c)

\* Device.connect (also __enter__): self.connected = True comes before
\* self._connect().
Device_connect(c) ==
    /\ BetweenCalls(c)
    /\ nConnects < limit.connects
    /\ connected' = TRUE
    /\ caller' = [caller EXCEPT ![c] = Enter(c, "Device.connect", NoCmd, "idle")]
    /\ UNCHANGED <<engineVars, wireVars, nextId, nextUid, nConnects, faults,
                   limit, attributes, histVars>>

\* DataLogger._connect: self._scpi_socket.connect(); what it raises leaves
\* Device.connect.
DataLogger_connect(c) ==
    /\ caller[c].op = "Device.connect"
    /\ IOBase_connect(c)

\* Device.disconnect (also __exit__): self.connected = False comes before
\* self._disconnect().
Device_disconnect(c) ==
    /\ BetweenCalls(c)
    /\ connected' = FALSE
    /\ caller' = [caller EXCEPT ![c] = Enter(c, "Device.disconnect", NoCmd, "idle")]
    /\ UNCHANGED <<engineVars, wireVars, nextId, nextUid, nConnects, faults,
                   limit, attributes, histVars>>

\* on_connection, else branch: raise NotConnectedError
NotConnectedError(c, method) ==
    /\ caller' = [caller EXCEPT
                    ![c] = Raises(Enter(c, method, NoCmd, "idle"), "NotConnectedError")]
    /\ UNCHANGED <<engineVars, wireVars, countVars, histVars>>

\* A method wrapped by on_connection (get_data, display, reset_display,
\* configure): its body submits a command to the engine.
on_connection(c) ==
    /\ kind = "SCPISocket"
    /\ BetweenCalls(c)
    /\ IF connected
       THEN IOBase_command(c)
       ELSE NotConnectedError(c, "on_connection")

\* DataLogger.reset_display: command("display:text:clear", get_response=False)
reset_display(c) ==
    LET cmd == [id |-> nextId, text |-> <<"display:text:clear">>] IN
    /\ nextId' = nextId + 1
    /\ out_queue' = IF stop THEN out_queue ELSE Put(out_queue, cmd)
    /\ caller' = [caller EXCEPT
                    ![c] = Returns(Enter(c, "reset_display", cmd, "idle"), NoUnit)]
    /\ UNCHANGED <<kind, stop, transport, threads, in_queue, wireVars, nextUid,
                   nConnects, faults, limit, connected, attributes, histVars>>

\* DataLogger._disconnect: self.reset_display(), which on_connection wraps,
\* then self._scpi_socket.disconnect().
DataLogger_disconnect(c) ==
    /\ kind = "SCPISocket"
    /\ \/ /\ caller[c].op = "Device.disconnect"
          /\ caller[c].pc = "idle"
          /\ IF connected
             THEN reset_display(c)
             ELSE NotConnectedError(c, "reset_display")
       \/ /\ ResetDisplayReturned(c)
          /\ Disconnect_stop(c)
       \/ Disconnect_join(c)
       \/ Disconnect_close(c)

NextLogger ==
    \/ \E i \in DOMAIN threads : IOBase_output(i)
    \/ \E i \in DOMAIN threads : IOBase_input(i)
    \/ DeviceResponds
    \/ Device_connect("main")
    \/ DataLogger_connect("main")
    \/ Device_disconnect("main")
    \/ DataLogger_disconnect("main")
    \/ on_connection("main")
    \/ IOBase_command_wait("main")

SpecLogger == InitLogger /\ [][NextLogger]_vars

\* The scheduler keeps running worker threads and the thread of the caller
\* that is inside disconnect(); the device and the start of new calls are
\* left free.
Fairness ==
    /\ WF_vars(Loops)
    /\ WF_vars(Disconnect_join("main") \/ Disconnect_close("main"))

FairSpec == InitLive /\ [][Next]_vars /\ Fairness

\* ============================ SerialConnection and Table (table.py)
\* Table.home, Table.unlock, Table.get_status and Table.move (with an explicit
\* feed) send these commands.
GrblHome == <<"$", "H">>
GrblUnlock == <<"$", "X">>
GrblStatusQuery == <<"?">>
GrblMove == <<"G", "1", " ", "G", "9", "0", " ", "X", "3", " ", "Y", "4", " ", "F", "1", "0", "0">>

\* GrblError.error_message / GrblAlarm.alarm_message: code -> description,
\* read from error_codes/*.csv when the classes are created.
error_message ==
    [i \in {"1", "2", "9"} |-> "description of error " \o i]
alarm_message ==
    [i \in {"1", "2"} |-> "description of alarm " \o i]

\* GrblError(i): "Error {}: {}".format(i, self.error_message[i]); a code that
\* is not in the table raises KeyError instead.
GrblError(i) ==
    IF Join(i) \in DOMAIN error_message
    THEN "GrblError: Error " \o Join(i) \o ": " \o error_message[Join(i)]
    ELSE "KeyError"

\* GrblAlarm(i): "ALARM {}: {}".format(i, self.alarm_message[i])
GrblAlarm(i) ==
    IF Join(i) \in DOMAIN alarm_message
    THEN "GrblAlarm: ALARM " \o Join(i) \o ": " \o alarm_message[Join(i)]
    ELSE "KeyError"

InitSerial ==
    /\ kind = "SerialConnection"
    /\ stop = FALSE
    /\ transport = "unconnected"
    /\ threads = <<>>
    /\ out_queue = <<>>
    /\ in_queue = <<>>
    /\ wire_out = <<>>
    /\ wire_in = <<>>
    /\ caller = [c \in Callers |-> IdleCaller]
    /\ nextId = 1
    /\ nextUid = 1
    /\ nConnects = 0
    /\ faults = 0
    /\ limit = [cmds |-> MaxGrblCmds, connects |-> MaxGrblConnects,
                faults |-> MaxGrblFaults]
    /\ sent = <<>>
    /\ received = <<>>
    /\ delivered = <<>>
    /\ drained = {}
    /\ timedOut = {}
    /\ connected = FALSE
    /\ attributes = <<>>

\* SerialConnection._output: strip CR and LF, frame as <cmd>\n
SerialFrame(cmd) ==
    [id |-> cmd.id, bytes |-> RemoveChars(cmd.text, CRLFChars) \o <<"\n">>]

SerialConnection_output(i) ==
    LET t == threads[i] IN
    /\ kind = "SerialConnection"
    /\ i \in DOMAIN threads
    /\ t.target = "output"
    /\ \/ /\ t.pc = "top"
          /\ threads' = [threads EXCEPT
                           ![i] = IF stop THEN ThreadReturns(t)
                                          ELSE [t EXCEPT !.pc = "get"]]
          /\ UNCHANGED <<out_queue, wire_out, sent, faults>>
       \/ /\ t.pc = "get"
          /\ IF out_queue # <<>>
             THEN /\ threads' = [threads EXCEPT ![i].pc = "send",
                                                ![i].cmd = Dequeue(out_queue).item]
                  /\ out_queue' = Dequeue(out_queue).rest
             ELSE /\ threads' = [threads EXCEPT ![i].pc = "top"]
                  /\ UNCHANGED out_queue
          /\ UNCHANGED <<wire_out, sent, faults>>
       \/ /\ t.pc = "send"
          /\ \/ /\ wire_out' = Append(wire_out, SerialFrame(t.cmd))
                /\ sent' = Append(sent, t.cmd.id)
                /\ threads' = [threads EXCEPT ![i].pc = "top", ![i].cmd = NoCmd]
                /\ UNCHANGED faults
             \/ /\ faults < limit.faults
                /\ faults' = faults + 1
                /\ threads' = [threads EXCEPT
                                 ![i] = ThreadRaises(t, "SerialException")]
                /\ UNCHANGED <<wire_out, sent>>
          /\ UNCHANGED out_queue
    /\ UNCHANGED <<kind, stop, transport, in_queue, wire_in, caller, nextId,
                   nextUid, nConnects, limit, connected, attributes, received, delivered, drained,
                   timedOut>>

\* What SerialConnection._input does with one parsed line: the exception it
\* raises, "continue" for an empty line, or "put".
SerialConnection_classify(message) ==
    CASE message.key = "none" -> "ConnectionError"
      [] message.key = "error" -> GrblError(message.groups[1])
      [] message.key = "alarm" -> GrblAlarm(message.groups[1])
      [] message.key = "empty" -> "continue"
      [] OTHER -> "put"

\* recv: readline() gives a line, or b"" when none arrived within the timeout.
SerialConnection_input(i) ==
    LET t == threads[i] IN
    /\ kind = "SerialConnection"
    /\ i \in DOMAIN threads
    /\ t.target = "input"
    /\ \/ /\ t.pc = "top"
          /\ threads' = [threads EXCEPT
                           ![i] = IF stop THEN ThreadReturns(t)
                                          ELSE [t EXCEPT !.pc = "recv"]]
          /\ UNCHANGED <<wire_in, in_queue, received, faults>>
       \/ /\ t.pc = "recv"
          /\ \/ /\ wire_in # <<>>
                /\ LET u == Head(wire_in)
                       line == Strip(u.raw, CRLFChars)
                       message == SerialConnection_message_parser(line)
                       e == SerialConnection_classify(message)
                   IN CASE e = "put" ->
                             /\ in_queue' = Put(in_queue,
                                  [uid |-> u.uid, for |-> u.for, raw |-> u.raw,
                                   key |-> message.key, groups |-> message.groups])
                             /\ received' = Append(received, u.uid)
                             /\ threads' = [threads EXCEPT ![i].pc = "top"]
                        [] e = "continue" ->
                             /\ threads' = [threads EXCEPT ![i].pc = "top"]
                             /\ UNCHANGED <<in_queue, received>>
                        [] OTHER ->
                             /\ threads' = [threads EXCEPT ![i] =
                                  [ThreadRaises(t, e) EXCEPT !.cause = u.for]]
                             /\ UNCHANGED <<in_queue, received>>
                /\ wire_in' = Tail(wire_in)
                /\ UNCHANGED faults
             \/ /\ ReceiveTimesOut
                /\ threads' = [threads EXCEPT ![i].pc = "top"]
                /\ UNCHANGED <<wire_in, in_queue, received, faults>>
             \/ /\ faults < limit.faults
                /\ faults' = faults + 1
                /\ threads' = [threads EXCEPT
                                 ![i] = ThreadRaises(t, "SerialException")]
                /\ UNCHANGED <<wire_in, in_queue, received>>
    /\ UNCHANGED <<kind, stop, transport, out_queue, wire_out, caller, nextId,
                   nextUid, nConnects, limit, connected, attributes, sent, delivered, drained, timedOut>>

\* SerialConnection.connect: guarded by "if not self.io_threads"; open()
\* failing and the user declining the retry raises NotConnectedError.
SerialConnection_connect(c) ==
    /\ kind = "SerialConnection"
    /\ caller[c].pc = "idle"
    /\ nConnects < limit.connects
    /\ nConnects' = nConnects + 1
    /\ IF threads # <<>>
       THEN /\ caller' = [caller EXCEPT
                            ![c] = Returns(Enter(c, "connect", NoCmd, "idle"), NoUnit)]
            /\ UNCHANGED <<stop, transport, threads, faults, wire_out, wire_in>>
       ELSE /\ stop' = FALSE
            /\ wire_out' = <<>>
            /\ wire_in' = <<>>
            /\ \/ /\ transport' = "open"
                  /\ threads' = StartThreads
                  /\ caller' = [caller EXCEPT
                                  ![c] = Returns(Enter(c, "connect", NoCmd, "idle"),
                                                 NoUnit)]
                  /\ UNCHANGED faults
               \/ /\ faults < limit.faults
                  /\ faults' = faults + 1
                  /\ transport' = "unconnected"
                  /\ caller' = [caller EXCEPT
                                  ![c] = Raises(Enter(c, "connect", NoCmd, "idle"),
                                                "NotConnectedError")]
                  /\ UNCHANGED threads
    /\ UNCHANGED <<kind, out_queue, in_queue, nextId, nextUid, limit, connected, attributes, histVars>>

\* _on_connection: the Table methods are called on a connected table.
Connected == threads # <<>> /\ transport = "open"

\* SerialConnection.command up to its first wait: self.out_queue.put(cmd);
\* answer = [].  proc is the Table method that makes the call.
SerialConnection_command(c, text, proc) ==
    /\ kind = "SerialConnection"
    /\ caller[c].pc = "idle"
    /\ Connected
    /\ nextId <= limit.cmds
    /\ nextId' = nextId + 1
    /\ LET cmd == [id |-> nextId, text |-> text] IN
       /\ out_queue' = Put(out_queue, cmd)
       /\ caller' = [caller EXCEPT ![c] =
            [Enter(c, "command", cmd, "await") EXCEPT
                !.proc = proc, !.stage = "command", !.answers = <<>>,
                !.result = <<>>, !.returned = <<>>,
                !.moveId = IF proc = "move" THEN nextId ELSE 0]]
    /\ UNCHANGED <<kind, stop, transport, threads, in_queue, wireVars, nextUid,
                   nConnects, faults, limit, connected, attributes, histVars>>

\* Table.home: self.serial_connection.command("$H", timeout=30)
Table_home(c) == SerialConnection_command(c, GrblHome, "home")

\* Table.unlock: self.serial_connection.command("$X")[0]
Table_unlock(c) == SerialConnection_command(c, GrblUnlock, "unlock")

\* Table.get_status: self.serial_connection.command("?")[0]
Table_get_status(c) == SerialConnection_command(c, GrblStatusQuery, "get_status")

\* Table.move: self.serial_connection.command("G1 ...")
Table_move(c) == SerialConnection_command(c, GrblMove, "move")

DigitValue ==
    [d \in Digit |->
        CASE d = "0" -> 0 [] d = "1" -> 1 [] d = "2" -> 2 [] d = "3" -> 3
          [] d = "4" -> 4 [] d = "5" -> 5 [] d = "6" -> 6 [] d = "7" -> 7
          [] d = "8" -> 8 [] d = "9" -> 9]

\* float(p) for the decimal integers the sampled status reports carry
RECURSIVE ParseNumber(_)
ParseNumber(p) ==
    IF p = <<>> THEN 0
    ELSE 10 * ParseNumber(Take(p, Len(p) - 1)) + DigitValue[p[Len(p)]]

\* Table.get_status after command("?") has returned answer: the first message
\* is taken for the status report.  When it is not one, "status" is never
\* bound and the return statement raises UnboundLocalError.
StatusOf(answer) ==
    LET key == answer[1].key
        value == answer[1].groups
        fields == Split(value[3], ",")
        position == [k \in 1..(IF Len(fields) < 2 THEN Len(fields) ELSE 2) |->
                        ParseNumber(fields[k])]
    IN IF key # "status"
       THEN [exc |-> "UnboundLocalError", status |-> <<>>, position |-> <<>>]
       ELSE IF value[2] # T_MPos
            THEN [exc |-> "TableError", status |-> <<>>, position |-> <<>>]
            ELSE [exc |-> "none", status |-> value[1], position |-> position]

\* The group of grbl's message after an unlock
T_Unlocked ==
    <<"M", "S", "G", ":", "C", "a", "u", "t", "i", "o", "n", ":", " ",
      "U", "n", "l", "o", "c", "k", "e", "d">>

\* Table.unlock after command("$X") has returned answer: the first message
\* decides.  `if key == 'message' and ...` only prints; the `if key == 'ok'`
\* after it has the else branch that raises UnlockError.
UnlockOf(answer) ==
    LET key == answer[1].key IN
    IF key = "ok" THEN "none" ELSE "UnlockError"

TerminalOrStatus(message) == message.key \in {"ok", "status"}

\* if message[0] == 'ok': break
Terminal(message) == message.key = "ok"

\* The Table method goes on with answer, which command() has returned (kept
\* in the field "returned" of the caller): home
\* returns, get_status decodes the report, move polls the status until it
\* reads "idle" (a new command("?") after a sleep while it does not).
TableContinues(c, answer) ==
    LET r == [caller[c] EXCEPT !.answers = answer, !.returned = answer]
        st == StatusOf(answer)
        query == [id |-> nextId, text |-> GrblStatusQuery]
        Poll == /\ nextId <= limit.cmds
                /\ nextId' = nextId + 1
                /\ out_queue' = Put(out_queue, query)
                /\ caller' = [caller EXCEPT ![c] =
                     [r EXCEPT !.cmd = query, !.stage = "poll", !.answers = <<>>]]
        Ends(q) == /\ caller' = [caller EXCEPT ![c] = q]
                   /\ UNCHANGED <<nextId, out_queue>>
        Decoded == [r EXCEPT !.result = <<st.status, st.position>>]
    IN CASE r.proc = "home" -> Ends(Returns(r, NoUnit))
         [] r.proc = "unlock" ->
              IF UnlockOf(answer) # "none" THEN Ends(Raises(r, UnlockOf(answer)))
              ELSE Ends(Returns(r, NoUnit))
         [] r.proc = "get_status" ->
              IF st.exc # "none" THEN Ends(Raises(r, st.exc))
              ELSE Ends(Returns(Decoded, NoUnit))
         [] r.proc = "move" /\ r.stage = "command" -> Poll
         [] r.proc = "move" /\ r.stage = "poll" ->
              IF st.exc # "none" THEN Ends(Raises(r, st.exc))
              ELSE IF LowerCase(st.status) = <<"i", "d", "l", "e">>
                   THEN Ends(Returns(Decoded, NoUnit))
                   ELSE Poll

\* SerialConnection.command, one turn of its loop: message =
\* self.in_queue.get(timeout) or TimeOutError; answer.append(message); the
\* call returns answer on 'ok'.
SerialConnection_command_wait(c) ==
    /\ kind = "SerialConnection"
    /\ caller[c].pc = "await"
    /\ IF in_queue = <<>>
       THEN /\ timedOut' = timedOut \cup {caller[c].cmd.id}
            /\ caller' = [caller EXCEPT ![c] = Raises(caller[c], "TimeOutError")]
            /\ UNCHANGED <<in_queue, delivered, out_queue, nextId>>
       ELSE LET message == Dequeue(in_queue).item
                answer == Append(caller[c].answers, message)
            IN /\ in_queue' = Dequeue(in_queue).rest
               /\ delivered' = Append(delivered, message.uid)
               /\ UNCHANGED timedOut
               /\ IF Terminal(message)
                  THEN TableContinues(c, answer)
                  ELSE /\ caller' = [caller EXCEPT ![c].answers = answer]
                       /\ UNCHANGED <<out_queue, nextId>>
    /\ UNCHANGED <<kind, stop, transport, threads, wireVars, nextUid, nConnects,
                   faults, limit, connected, attributes, sent, received, drained>>

\* ------------------------------------------------------------ grbl
L_ok == <<"o", "k", "\r", "\n">>
L_error == <<"e", "r", "r", "o", "r", ":", "2", "\r", "\n">>
L_alarm == <<"A", "L", "A", "R", "M", ":", "1", "\r", "\n">>
L_unlisted == <<"e", "r", "r", "o", "r", ":", "7", "\r", "\n">>
L_unlocked == <<"[">> \o T_Unlocked \o <<"]", "\r", "\n">>
L_idle == <<"<", "I", "d", "l", "e", "|", "M", "P", "o", "s", ":", "3", ",", "4", ",", "0", ">", "\r", "\n">>
L_run == <<"<", "R", "u", "n", "|", "M", "P", "o", "s", ":", "1", ",", "2", ",", "0", ">", "\r", "\n">>

GrblCommandOf(frame) == Take(frame.bytes, Len(frame.bytes) - 1)

\* grbl answers "?" followed by a line end with a status report and 'ok',
\* "$X" with the unlock message and 'ok' when it was locked, and any line
\* with 'ok', 'error:<code>' or 'ALARM:<code>', where the code may be one the
\* lookup table does not list.
GrblResponses(cmd) ==
    IF cmd = GrblStatusQuery
    THEN { <<L_idle, L_ok>>, <<L_run, L_ok>> }
    ELSE IF cmd = GrblUnlock
    THEN { <<L_unlocked, L_ok>>, <<L_ok>>, <<L_error>> }
    ELSE { <<L_ok>>, <<L_error>>, <<L_alarm>>, <<L_unlisted>> }

GrblResponds ==
    /\ kind = "SerialConnection"
    /\ wire_out # <<>>
    /\ transport = "open"
    /\ LET frame == Head(wire_out)
           cmd == GrblCommandOf(frame)
       IN \E lines \in GrblResponses(cmd) :
            /\ wire_in' = wire_in \o
                 [k \in DOMAIN lines |->
                    [uid |-> nextUid + k - 1, for |-> frame.id, raw |-> lines[k]]]
            /\ nextUid' = nextUid + Len(lines)
    /\ wire_out' = Tail(wire_out)
    /\ UNCHANGED <<engineVars, caller, nextId, nConnects, faults, limit, connected, attributes, histVars>>

SerialLoops ==
    \/ \E i \in DOMAIN threads : SerialConnection_output(i)
    \/ \E i \in DOMAIN threads : SerialConnection_input(i)

TableCalls(c) ==
    \/ Disconnected /\ SerialConnection_connect(c)
    \/ Table_home(c)
    \/ Table_get_status(c)
    \/ Table_move(c)
    \/ SerialConnection_command_wait(c)
    \/ Disconnect_stop(c)
    \/ Disconnect_join(c)
    \/ Disconnect_close(c)

NextSerial ==
    \/ SerialLoops
    \/ GrblResponds
    \/ TableCalls("main")

SpecSerial == InitSerial /\ [][NextSerial]_vars

\* The same program with fewer commands per behaviour.
InitCycle ==
    /\ kind = "SerialConnection"
    /\ stop = FALSE
    /\ transport = "unconnected"
    /\ threads = <<>>
    /\ out_queue = <<>>
    /\ in_queue = <<>>
    /\ wire_out = <<>>
    /\ wire_in = <<>>
    /\ caller = [c \in Callers |-> IdleCaller]
    /\ nextId = 1
    /\ nextUid = 1
    /\ nConnects = 0
    /\ faults = 0
    /\ limit = [cmds |-> CycleGrblCmds, connects |-> CycleGrblConnects,
                faults |-> CycleGrblFaults]
    /\ sent = <<>>
    /\ received = <<>>
    /\ delivered = <<>>
    /\ drained = {}
    /\ timedOut = {}
    /\ connected = FALSE
    /\ attributes = <<>>

SpecCycle == InitCycle /\ [][NextSerial]_vars

\* A connected table that is asked to unlock.
UnlockCalls(c) ==
    \/ Disconnected /\ SerialConnection_connect(c)
    \/ Table_unlock(c)
    \/ SerialConnection_command_wait(c)

NextUnlock ==
    \/ SerialLoops
    \/ GrblResponds
    \/ UnlockCalls("main")

SpecUnlock == InitCycle /\ [][NextUnlock]_vars

\* ------------------------------------------------- the parser on its own
\* A connected SerialConnection whose port holds one line, any of SampleLines,
\* for the input thread to read.
InitParser ==
    /\ kind = "SerialConnection"
    /\ stop = FALSE
    /\ transport = "open"
    /\ threads = <<NewThread("input"), NewThread("output")>>
    /\ out_queue = <<>>
    /\ in_queue = <<>>
    /\ wire_out = <<>>
    /\ \E line \in SampleLines :
         wire_in = <<[uid |-> 1, for |-> 0, raw |-> line \o CRLF]>>
    /\ caller = [c \in Callers |-> IdleCaller]
    /\ nextId = 1
    /\ nextUid = 2
    /\ nConnects = 1
    /\ faults = 0
    /\ limit = [cmds |-> MaxGrblCmds, connects |-> MaxGrblConnects,
                faults |-> MaxGrblFaults]
    /\ sent = <<>>
    /\ received = <<>>
    /\ delivered = <<>>
    /\ drained = {}
    /\ timedOut = {}
    /\ connected = FALSE
    /\ attributes = <<>>

NextParser == \E i \in DOMAIN threads : SerialConnection_input(i)

SpecParser == InitParser /\ [][NextParser]_vars

\* ------------------------------------------------ DataSocket (controller.py)
\* Bytes are the integers 0..255, byte strings are sequences of them.
HeaderSize == 32

RECURSIVE Unsigned(_)
\* the little-endian unsigned integer of a byte string
Unsigned(bytes) ==
    IF bytes = <<>> THEN 0 ELSE Head(bytes) + 256 * Unsigned(Tail(bytes))

\* struct 'i' and np.int32 with newbyteorder('<'): two's complement, the
\* fourth byte holding the sign
Int32(bytes) ==
    Unsigned(SubSeq(bytes, 1, 3))
        + 16777216 * (IF bytes[4] >= 128 THEN bytes[4] - 256 ELSE bytes[4])

\* struct 'h'
Int16(bytes) ==
    IF Unsigned(bytes) >= 32768 THEN Unsigned(bytes) - 65536 ELSE Unsigned(bytes)

RECURSIVE Ones(_)
Ones(n) == IF n = 0 THEN 0 ELSE (n % 2) + Ones(n \div 2)

RECURSIVE PopCount(_)
\* the number of set bits of a byte string
PopCount(bytes) ==
    IF bytes = <<>> THEN 0 ELSE Ones(Head(bytes)) + PopCount(Tail(bytes))

\* The bits of a byte and of a little-endian byte string, lowest first
BitsOfByte(b) == [k \in 1..8 |-> (b \div (2 ^ (k - 1))) % 2]

RECURSIVE BitsOf(_)
BitsOf(bytes) ==
    IF bytes = <<>> THEN <<>> ELSE BitsOfByte(Head(bytes)) \o BitsOf(Tail(bytes))

RECURSIVE Negated(_)
\* the bits of -n from the two's complement bits of n: unchanged up to the
\* lowest set bit, inverted above it
Negated(bits) ==
    IF bits = <<>> THEN <<>>
    ELSE IF Head(bits) = 0 THEN <<0>> \o Negated(Tail(bits))
    ELSE <<1>> \o [k \in 1..(Len(bits) - 1) |-> 1 - bits[k + 1]]

\* struct 'q' followed by '{0:064b}'.format(channel_field).count('1'): the
\* field is a signed integer, and format writes a negative one as '-' and the
\* binary digits of its magnitude.
FormattedOnes(bytes) ==
    LET bits == BitsOf(bytes)
        digits == IF bits[Len(bits)] = 1 THEN Negated(bits) ELSE bits
    IN Cardinality({k \in DOMAIN digits : digits[k] = 1})

\* DataSocket._parse_header: struct.unpack('<iiiqihhi', data_stream[0:32]);
\* the channel field is header[3], bytes per frame header[5], the number of
\* frames header[6].
DataSocket_parse_header(data_stream) ==
    [nr_of_channels |-> FormattedOnes(SubSeq(data_stream, 13, 20)),
     bytes_per_frame |-> Int16(SubSeq(data_stream, 25, 26)),
     nr_of_frames |-> Int16(SubSeq(data_stream, 27, 28)),
     frame_counter |-> Int32(SubSeq(data_stream, 29, 32))]

Reverse(s) == [k \in DOMAIN s |-> s[Len(s) + 1 - k]]

FromBufferBigEndian(frame) ==
    [k \in 1..(Len(frame) \div 4) |->
        Int32(Reverse(SubSeq(frame, 4 * k - 3, 4 * k)))]

\* np.frombuffer(frame, dtype): the little-endian int32 values of a frame
FromBuffer(frame) ==
    [k \in 1..(Len(frame) \div 4) |-> Int32(SubSeq(frame, 4 * k - 3, 4 * k))]

\* np.frombuffer(frame, dtype)[channels], channels counted from 0
SelectChannels(frame, channels) ==
    [k \in DOMAIN channels |-> FromBuffer(frame)[channels[k] + 1]]

RECURSIVE StoreFramesAll(_, _, _, _, _, _)
StoreFramesAll(data, received_points, payload, i, h, channels) ==
    IF i >= h.nr_of_frames
    THEN [data |-> data, received_points |-> received_points]
    ELSE LET frame == SubSeq(payload, i * h.bytes_per_frame + 1,
                             (i + 1) * h.bytes_per_frame)
         IN StoreFramesAll([data EXCEPT ![received_points + 1] =
                                          SelectChannels(frame, channels)],
                           received_points + 1, payload, i + 1, h, channels)

RECURSIVE StoreFrames(_, _, _, _, _, _)
\* for i in range(nr_of_frames): if received_points < data_points:
\* data[received_points] = frame i of the payload; received_points += 1
StoreFrames(data, received_points, payload, i, h, channels) ==
    IF i >= h.nr_of_frames \/ received_points >= Len(data)
    THEN [data |-> data, received_points |-> received_points]
    ELSE LET frame == SubSeq(payload, i * h.bytes_per_frame + 1,
                             (i + 1) * h.bytes_per_frame)
         IN StoreFrames([data EXCEPT ![received_points + 1] =
                                          SelectChannels(frame, channels)],
                        received_points + 1, payload, i + 1, h, channels)

\* data.T
Transpose(data, width) ==
    [c \in 1..width |-> [p \in DOMAIN data |-> data[p][c]]]

\* channels of the sensors, as _get_data collects them
ChannelsOf(sensors) == [k \in DOMAIN sensors |-> sensors[k].channel]

HasDuplicates(channels) ==
    \E j, k \in DOMAIN channels : j # k /\ channels[j] = channels[k]

MaxOf(channels) ==
    CHOOSE m \in {channels[k] : k \in DOMAIN channels} :
        \A k \in DOMAIN channels : channels[k] <= m

\* ---- the controller's side of the data port
\* the little-endian two's complement bytes of an integer, width bytes wide
RECURSIVE Bytes(_, _)
Bytes(v, width) ==
    IF width = 0 THEN <<>>
    ELSE <<v % 256>> \o Bytes((v - (v % 256)) \div 256, width - 1)

RECURSIVE ChannelField(_)
\* channel bit field: two bits per channel, 01 for a channel that is present
ChannelField(k) == IF k = 0 THEN 0 ELSE 1 + 4 * ChannelField(k - 1)

\* preamble, item nr., serial nr., channels, unused, bytes per frame, number
\* of frames, frame counter
Header(k, n, counter) ==
    <<77, 69, 65, 83>> \o Bytes(6220, 4) \o Bytes(1234, 4)
        \o Bytes(ChannelField(k), 8) \o Bytes(0, 4) \o Bytes(4 * k, 2)
        \o Bytes(n, 2) \o Bytes(counter, 4)

RECURSIVE FrameBytes(_)
FrameBytes(frame) ==
    IF frame = <<>> THEN <<>>
    ELSE Bytes(Head(frame), 4) \o FrameBytes(Tail(frame))

RECURSIVE PayloadBytes(_)
PayloadBytes(frames) ==
    IF frames = <<>> THEN <<>>
    ELSE FrameBytes(Head(frames)) \o PayloadBytes(Tail(frames))

RECURSIVE Packets(_, _, _)
\* the packets of a stream: shape[j] frames in packet j, taken in order from
\* frames, the frame counter running on
Packets(k, shape, frames) ==
    IF shape = <<>> THEN <<>>
    ELSE Header(k, Head(shape), Len(frames))
            \o PayloadBytes(SubSeq(frames, 1, Head(shape)))
            \o Packets(k, Tail(shape), SubSeq(frames, Head(shape) + 1, Len(frames)))

\* frames per packet of the streams the controller sends
PacketShapes == {<<1>>, <<2>>, <<1, 1>>, <<0, 2>>, <<2, 1>>}

\* measured values: the value of channel c (from 1) in frame j of the
\* stream, of either sign and filling one to four bytes; the first frame
\* holds the largest and the smallest values
SampleValue(j, c) ==
    IF j = 1
    THEN IF c % 2 = 1 THEN 2147483647 ELSE (c - 2) - 2147483647
    ELSE IF (j + c) % 2 = 0 THEN 0 - (16909060 * c + j)
         ELSE 65536 * (j - 1) + 258 * (c - 1) + 7

RECURSIVE Sum(_)
Sum(shape) == IF shape = <<>> THEN 0 ELSE Head(shape) + Sum(Tail(shape))

\* the frames of a stream of k channels
FramesOf(k, shape) ==
    [j \in 1..Sum(shape) |-> [c \in 1..k |-> SampleValue(j, c)]]

Sensor(channel) == [channel |-> channel, range |-> 100 * (channel + 1)]

\* Controller.sensors
SensorLists ==
    { <<>>, <<Sensor(0)>>, <<Sensor(1)>>, <<Sensor(0), Sensor(1)>>,
      <<Sensor(1), Sensor(0)>>, <<Sensor(2)>>, <<Sensor(0), Sensor(0)>> }

\* sizes of the chunks recv(65536) hands over: at most what has arrived
ChunkSizes == {1, 7, 20, 31, 32, 33, 65536}

InitData ==
    /\ kind = "DataSocket"
    /\ stop = FALSE
    /\ transport = "none"
    /\ threads = <<>>
    /\ out_queue = <<>>
    /\ in_queue = <<>>
    /\ wire_out = <<>>
    /\ wire_in = <<>>
    /\ caller = [c \in Callers |-> IdleCaller]
    /\ nextId = 1
    /\ nextUid = 1
    /\ nConnects = 0
    /\ faults = 0
    /\ limit = [cmds |-> 0, connects |-> MaxAcquires, faults |-> MaxDataFaults]
    /\ sent = <<>>
    /\ received = <<>>
    /\ delivered = <<>>
    /\ drained = {}
    /\ timedOut = {}
    /\ connected = FALSE
    /\ attributes = <<>>

\* ControllerError("Device has only {} channels.")
InsufficientChannels == "ControllerError: Device has only"

\* in_thread, entering _get_data(data_points, sensors)
DataThread(data_points, sensors) ==
    [target |-> "_get_data", pc |-> "start", cmd |-> NoCmd, error |-> "none",
     cause |-> 0, exception_queue |-> <<>>, reported |-> FALSE,
     data_points |-> data_points, sensors |-> sensors,
     channels |-> ChannelsOf(sensors), data_stream |-> <<>>,
     data |-> <<>>, received_points |-> 0, waits |-> "none",
     header |-> DataSocket_parse_header([k \in 1..HeaderSize |-> 0])]

\* DataSocket.acquire (called by Controller.start_acquisition): nothing when
\* in_thread is set; else a new socket is connected and in_thread started.
\* The controller sends its stream as soon as the socket is connected; sent
\* keeps the frames it encodes for this acquisition.
DataSocket_acquire(c) ==
    /\ kind = "DataSocket"
    /\ caller[c].pc = "idle"
    /\ nConnects < limit.connects
    /\ nConnects' = nConnects + 1
    /\ IF threads # <<>>
       THEN /\ caller' = [caller EXCEPT
                            ![c] = Returns(Enter(c, "acquire", NoCmd, "idle"), NoUnit)]
            /\ UNCHANGED <<stop, transport, threads, wire_in, sent, faults, drained>>
       ELSE /\ stop' = FALSE
            /\ \/ /\ faults < limit.faults
                  /\ faults' = faults + 1
                  /\ transport' = "unconnected"
                  /\ caller' = [caller EXCEPT
                       ![c] = Raises(Enter(c, "acquire", NoCmd, "idle"),
                                     "ControllerError: Could not connect")]
                  /\ UNCHANGED <<threads, wire_in, sent, drained>>
               \/ /\ transport' = "open"
                  /\ \E data_points \in 1..MaxDataPoints, sensors \in SensorLists :
                       threads' = <<DataThread(data_points, sensors)>>
                  /\ \E k \in 0..MaxChannels, shape \in PacketShapes :
                       /\ sent' = FramesOf(k, shape)
                       /\ wire_in' = Packets(k, shape, FramesOf(k, shape))
                  /\ drained' = {}
                  /\ caller' = [caller EXCEPT
                       ![c] = [Returns(Enter(c, "acquire", NoCmd, "idle"), NoUnit)
                                 EXCEPT !.result = <<>>, !.returned = <<>>]]
                  /\ UNCHANGED faults
    /\ UNCHANGED <<kind, out_queue, in_queue, wire_out, nextId, nextUid, limit, connected, attributes,
                   received, delivered, timedOut>>

\* the length of data_stream that the wait of in_thread is for
Needed(t) ==
    IF t.waits = "header" THEN HeaderSize
    ELSE HeaderSize + t.header.bytes_per_frame * t.header.nr_of_frames

\* DataSocket._get_data, one step of in_thread.  For a DataSocket, drained
\* keeps which waits ("header", "payload") a chunk has left unfinished: the
\* chunk ended inside the header or inside the payload.
\*   start    the channels of the sensors; data = zeros
\*   loop     while received_points < data_points, else in_queue.put(data.T)
\*   header   while len(data_stream) < 32: _wait_for_data(); then the header
\*            is parsed and the channels are checked against it (max() of
\*            an empty channel list raises ValueError)
\*   payload  while len(data_stream) < 32 + payload_size: _wait_for_data();
\*            then the frames are stored and the packet is cut off
\*   recv, timed_out   DataSocket._wait_for_data: recv(65536), and
\*            "continue" on socket.timeout
DataSocket_get_data(i) ==
    LET t == threads[i]
        h == t.header
        payload_size == h.bytes_per_frame * h.nr_of_frames
    IN
    /\ kind = "DataSocket"
    /\ t.target = "_get_data"
    /\ \/ /\ t.pc = "start"
          /\ threads' = [threads EXCEPT ![i] =
               IF HasDuplicates(t.channels)
               THEN ThreadRaises(t, "ControllerError: same demodulator")
               ELSE [t EXCEPT !.pc = "loop",
                              !.data = [p \in 1..t.data_points |->
                                          [k \in DOMAIN t.channels |-> 0]]]]
          /\ UNCHANGED <<in_queue, wire_in, drained>>
       \/ /\ t.pc = "loop"
          /\ IF t.received_points < t.data_points
             THEN /\ threads' = [threads EXCEPT ![i].pc = "header"]
                  /\ UNCHANGED in_queue
             ELSE /\ in_queue' = Put(in_queue, Transpose(t.data, Len(t.channels)))
                  /\ threads' = [threads EXCEPT ![i] = ThreadReturns(t)]
          /\ UNCHANGED <<wire_in, drained>>
       \/ /\ t.pc = "header"
          /\ threads' = [threads EXCEPT ![i] =
               IF Len(t.data_stream) < HeaderSize
               THEN [t EXCEPT !.pc = "recv", !.waits = "header"]
               ELSE LET parsed == DataSocket_parse_header(t.data_stream) IN
                    IF t.channels = <<>>
                    THEN ThreadRaises(t, "ValueError")
                    ELSE IF MaxOf(t.channels) + 1 > parsed.nr_of_channels
                    THEN ThreadRaises(t, InsufficientChannels)
                    ELSE [t EXCEPT !.pc = "payload", !.header = parsed]]
          /\ UNCHANGED <<in_queue, wire_in, drained>>
       \/ /\ t.pc = "payload"
          /\ threads' = [threads EXCEPT ![i] =
               IF Len(t.data_stream) < HeaderSize + payload_size
               THEN [t EXCEPT !.pc = "recv", !.waits = "payload"]
               ELSE LET payload == SubSeq(t.data_stream, HeaderSize + 1,
                                          HeaderSize + payload_size)
                        stored == StoreFrames(t.data, t.received_points, payload,
                                              0, h, t.channels)
                    IN [t EXCEPT !.pc = "loop",
                                 !.data = stored.data,
                                 !.received_points = stored.received_points,
                                 !.data_stream = Drop(t.data_stream,
                                                      HeaderSize + payload_size)]]
          /\ UNCHANGED <<in_queue, wire_in, drained>>
       \/ /\ t.pc = "recv"
          /\ \/ /\ wire_in # <<>>
                /\ \E size \in ChunkSizes :
                     LET n == IF size < Len(wire_in) THEN size ELSE Len(wire_in) IN
                     /\ threads' = [threads EXCEPT
                          ![i].data_stream = t.data_stream \o Take(wire_in, n),
                          ![i].pc = t.waits]
                     /\ wire_in' = Drop(wire_in, n)
                     /\ drained' = drained \cup
                          (IF Len(t.data_stream) + n < Needed(t) THEN {t.waits}
                           ELSE {})
             \/ /\ ReceiveTimesOut
                /\ threads' = [threads EXCEPT ![i].pc = "timed_out"]
                /\ UNCHANGED <<wire_in, drained>>
          /\ UNCHANGED in_queue
       \/ /\ t.pc = "timed_out"
          /\ threads' = [threads EXCEPT ![i].pc = "recv"]
          /\ UNCHANGED <<in_queue, wire_in, drained>>
    /\ UNCHANGED <<kind, stop, transport, out_queue, wire_out, caller, countVars,
                   sent, received, delivered, timedOut>>

\* Controller.scale: channel_data / 0xffffff * sensor['range'], row by row
\* of zip(self.sensors, data); the quotient is kept as its three terms.
Controller_scale(data, sensors) ==
    [k \in 1..(IF Len(sensors) < Len(data) THEN Len(sensors) ELSE Len(data)) |->
        [p \in DOMAIN data[k] |->
            [value |-> data[k][p], over |-> 16777215, range |-> sensors[k].range]]]

\* Controller.stop_acquisition, begun: DataSocket.end sets _stop_flag and
\* joins in_thread; without an in_thread, None.join raises AttributeError.
Controller_stop_acquisition(c) ==
    /\ kind = "DataSocket"
    /\ caller[c].pc = "idle"
    /\ stop' = TRUE
    /\ caller' = [caller EXCEPT ![c] =
         IF threads = <<>>
         THEN Raises(Enter(c, "stop_acquisition", NoCmd, "idle"), "AttributeError")
         ELSE Enter(c, "stop_acquisition", NoCmd, "join")]
    /\ UNCHANGED <<kind, transport, threads, out_queue, in_queue, wireVars,
                   countVars, histVars>>

\* DataSocket.end from the join on: in_thread.join(), in_thread = None,
\* data_socket.close(); then Controller.stop_acquisition takes the result
\* with in_queue.get_nowait().  On queue.Empty it raises NoDataAcquired, a
\* name that controller.py defines nowhere: NameError.
Controller_stop_acquisition_join(c) ==
    /\ kind = "DataSocket"
    /\ caller[c].pc = "join"
    /\ caller[c].op = "stop_acquisition"
    /\ \A i \in DOMAIN threads : threads[i].pc = "done"
    /\ transport' = "closed"
    /\ wire_in' = <<>>
    /\ IF in_queue = <<>>
       THEN /\ caller' = [caller EXCEPT ![c] = Raises(caller[c], "NameError")]
            /\ UNCHANGED in_queue
       ELSE /\ in_queue' = Dequeue(in_queue).rest
            /\ caller' = [caller EXCEPT ![c] =
                 [Returns(caller[c], NoUnit) EXCEPT
                    !.result = Controller_scale(Dequeue(in_queue).item,
                                                threads[1].sensors),
                    !.returned = <<Dequeue(in_queue).item>>]]
    /\ threads' = <<>>
    /\ UNCHANGED <<kind, stop, out_queue, wire_out, countVars, histVars>>

NextData ==
    \/ \E i \in DOMAIN threads : DataSocket_get_data(i)
    \/ DataSocket_acquire("main")
    \/ Controller_stop_acquisition("main")
    \/ Controller_stop_acquisition_join("main")

SpecData == InitData /\ [][NextData]_vars

\* ======================================== Measurement (measurement.py)
\* A Measurement owns a Table, a DataLogger and a Controller.  For a
\* Measurement the engine variables hold one value for each device:
\* connected[d] is the device's flag, threads[d] the I/O threads of its
\* engine, transport[d] its port or socket, stop[d] its stop signal.  caller
\* holds the user's thread "main" and the four threads scan() creates.
Devices == {"table", "data_logger", "controller"}
Workers == {"move", "display", "get_z", "get_T"}

\* pc: where the thread is; op: the Measurement method "main" is in; status
\* and exc: how the last call, or the thread's run, ended; engine: the device
\* whose response the thread waits for at pc "await"; then: where "main"
\* goes on after the response; length, phase, i, j, threads: scan()'s number
\* of positions, its place in its loop and its list of threads; stage: the command a worker waits for;
\* invoked: the devices whose disconnect() the running disconnect() has called.
NoCall ==
    [pc |-> "idle", op |-> "none", status |-> "none", exc |-> "none",
     engine |-> "none", then |-> "none", length |-> 0, phase |-> "none",
     i |-> 0, j |-> 0,
     threads |-> <<>>, stage |-> "none", invoked |-> {}]

NoThread == [NoCall EXCEPT !.pc = "none"]

InitMeasurement ==
    /\ kind = "Measurement"
    /\ stop = [d \in Devices |-> FALSE]
    /\ transport = [d \in Devices |-> "none"]
    /\ threads = [d \in Devices |-> <<>>]
    /\ connected = [d \in Devices |-> FALSE]
    /\ attributes = <<>>
    /\ caller = [c \in {"main"} \cup Workers |-> IF c = "main" THEN NoCall ELSE NoThread]
    /\ out_queue = <<>>
    /\ in_queue = <<>>
    /\ wire_out = <<>>
    /\ wire_in = <<>>
    /\ nextId = 1
    /\ nextUid = 1
    /\ nConnects = 0
    /\ faults = 0
    /\ limit = [cmds |-> MaxCalls, connects |-> 0, faults |-> MaxDeviceFaults]
    /\ sent = <<>>
    /\ received = <<>>
    /\ delivered = <<>>
    /\ drained = {}
    /\ timedOut = {}

Parked ==
    UNCHANGED <<kind, out_queue, in_queue, wireVars, nextUid, nConnects, limit,
                attributes, histVars>>

\* The threads scan() has left behind have all ended.
NoWorkerRuns == \A w \in Workers : caller[w].pc \in {"none", "done"}

\* The user calls a method of the Measurement: connect(), __enter__(),
\* disconnect() (which is also __exit__) or scan().  scan() begins with an
\* empty list of threads; the ended threads of an earlier scan() are gone.
Measurement_call ==
    /\ kind = "Measurement"
    /\ caller["main"].pc = "idle"
    /\ nextId <= limit.cmds
    /\ nextId' = nextId + 1
    /\ \E op \in {"connect", "__enter__", "disconnect", "scan"} :
         /\ op = "scan" => NoWorkerRuns
         /\ \E n \in 1..MaxPositions : caller' = [c \in DOMAIN caller |->
              IF c = "main"
              THEN [NoCall EXCEPT !.op = op, !.status = "running",
                      !.length = IF op = "scan" THEN n ELSE 0,
                      !.pc = CASE op = "disconnect" -> "table.disconnect"
                               [] op = "scan" -> "set_sampling_time"
                               [] OTHER -> "controller.connect"]
              ELSE IF op = "scan" THEN NoThread ELSE caller[c]]
    /\ UNCHANGED <<stop, transport, threads, connected, faults>>
    /\ Parked

\* An exception leaves the method "main" is in.  __enter__ catches what
\* connect() raises, calls __exit__ (disconnect) and raises it again.
Propagates(m, e) ==
    IF m.op = "__enter__" /\ m.pc \notin {"table.disconnect",
                                            "data_logger.disconnect",
                                            "controller.disconnect"}
    THEN [m EXCEPT !.pc = "table.disconnect", !.exc = e]
    ELSE [m EXCEPT !.pc = "idle", !.status = "raised", !.exc = e]

\* I/O threads of an engine, started by its connect()
IOThreads == <<"input", "output">>

\* Measurement.connect, statement by statement.  Controller.connect and
\* Table.connect set connected after their engine has connected,
\* Device.connect (the DataLogger) before; ControlSocket.connect and
\* SerialConnection.connect start threads only when they have none,
\* IOBase.connect always.
Measurement_connect ==
    LET m == caller["main"]
        Goes(pc) == caller' = [caller EXCEPT !["main"].pc = pc]
        Fails(e) == /\ faults < limit.faults
                    /\ faults' = faults + 1
                    /\ caller' = [caller EXCEPT !["main"] = Propagates(m, e)]
        Opens(d, append) ==
            /\ stop' = [stop EXCEPT ![d] = FALSE]
            /\ transport' = [transport EXCEPT ![d] = "open"]
            /\ threads' = [threads EXCEPT ![d] =
                 IF append THEN threads[d] \o IOThreads ELSE IOThreads]
    IN
    /\ kind = "Measurement"
    /\ \/ /\ m.pc = "controller.connect"
          /\ \/ /\ IF threads.controller = <<>>
                   THEN Opens("controller", FALSE)
                   ELSE UNCHANGED <<stop, transport, threads>>
                /\ connected' = [connected EXCEPT !.controller = TRUE]
                /\ Goes("data_logger.connect")
                /\ UNCHANGED faults
             \/ /\ threads.controller = <<>>
                /\ Fails("ControllerError")
                /\ stop' = [stop EXCEPT !.controller = FALSE]
                /\ transport' = [transport EXCEPT !.controller = "unconnected"]
                /\ UNCHANGED <<threads, connected>>
       \/ /\ m.pc = "data_logger.connect"
          /\ connected' = [connected EXCEPT !.data_logger = TRUE]
          /\ \/ /\ Opens("data_logger", TRUE)
                /\ Goes("configure")
                /\ UNCHANGED faults
             \/ /\ Fails("DataLoggerError")
                /\ stop' = [stop EXCEPT !.data_logger = FALSE]
                /\ transport' = [transport EXCEPT !.data_logger = "unconnected"]
                /\ UNCHANGED threads
       \/ /\ m.pc = "configure"
          /\ caller' = [caller EXCEPT !["main"] =
               IF connected.data_logger THEN [m EXCEPT !.pc = "table.connect"]
               ELSE Propagates(m, "NotConnectedError")]
          /\ UNCHANGED <<stop, transport, threads, connected, faults>>
       \/ /\ m.pc = "table.connect"
          /\ \/ /\ IF threads.table = <<>>
                   THEN Opens("table", FALSE)
                   ELSE UNCHANGED <<stop, transport, threads>>
                /\ connected' = [connected EXCEPT !.table = TRUE]
                /\ Goes("check_resolution")
                /\ UNCHANGED faults
             \/ /\ threads.table = <<>>
                /\ Fails("NotConnectedError")
                /\ stop' = [stop EXCEPT !.table = FALSE]
                /\ UNCHANGED <<transport, threads, connected>>
       \/ /\ m.pc = "check_resolution"
          /\ \/ /\ caller' = [caller EXCEPT !["main"] =
                     [m EXCEPT !.pc = "idle", !.status = "returned"]]
                /\ UNCHANGED faults
             \/ Fails("NotOnGridError")
          /\ UNCHANGED <<stop, transport, threads, connected>>
    /\ UNCHANGED nextId
    /\ Parked

\* Table.disconnect: self.serial_connection.disconnect(); self.connected = False
Table_disconnect ==
    /\ stop' = [stop EXCEPT !.table = TRUE]
    /\ threads' = [threads EXCEPT !.table = <<>>]
    /\ transport' = [transport EXCEPT !.table = "closed"]
    /\ connected' = [connected EXCEPT !.table = FALSE]

\* Controller.disconnect: self.control_socket.disconnect(), whose telnet
\* object is None until the first connect(); self.connected = False
Controller_disconnect(m) ==
    /\ stop' = [stop EXCEPT !.controller = TRUE]
    /\ threads' = [threads EXCEPT !.controller = <<>>]
    /\ IF transport.controller = "none"
       THEN /\ caller' = [caller EXCEPT !["main"] =
                 [Propagates(m, "AttributeError")
                    EXCEPT !.invoked = m.invoked \cup {"controller"}]]
            /\ UNCHANGED <<transport, connected>>
       ELSE /\ transport' = [transport EXCEPT !.controller = "closed"]
            /\ connected' = [connected EXCEPT !.controller = FALSE]
            /\ caller' = [caller EXCEPT !["main"] =
                 [m EXCEPT !.pc = "idle",
                           !.status = IF m.exc = "none" THEN "returned" ELSE "raised",
                           !.invoked = m.invoked \cup {"controller"}]]

\* Measurement.disconnect, statement by statement.  Device.disconnect (the
\* DataLogger) clears connected and calls _disconnect, whose reset_display()
\* is wrapped by on_connection.
Measurement_disconnect ==
    LET m == caller["main"] IN
    /\ kind = "Measurement"
    /\ \/ /\ m.pc = "table.disconnect"
          /\ Table_disconnect
          /\ caller' = [caller EXCEPT !["main"] =
               [m EXCEPT !.pc = "data_logger.disconnect",
                         !.invoked = m.invoked \cup {"table"}]]
       \/ /\ m.pc = "data_logger.disconnect"
          /\ connected' = [connected EXCEPT !.data_logger = FALSE]
          /\ IF connected'.data_logger
             THEN /\ stop' = [stop EXCEPT !.data_logger = TRUE]
                  /\ threads' = [threads EXCEPT !.data_logger = <<>>]
                  /\ transport' = [transport EXCEPT !.data_logger = "closed"]
                  /\ caller' = [caller EXCEPT !["main"] =
                       [m EXCEPT !.pc = "controller.disconnect",
                                 !.invoked = m.invoked \cup {"data_logger"}]]
             ELSE /\ caller' = [caller EXCEPT !["main"] =
                       [Propagates(m, "NotConnectedError")
                          EXCEPT !.invoked = m.invoked \cup {"data_logger"}]]
                  /\ UNCHANGED <<stop, threads, transport>>
       \/ /\ m.pc = "controller.disconnect"
          /\ Controller_disconnect(m)
    /\ UNCHANGED <<nextId, faults>>
    /\ Parked

\* Threads of the two phases of a position, in the order scan() appends them
PhaseThreads(phase) ==
    IF phase = "positioning" THEN <<"move", "display">> ELSE <<"get_z", "get_T">>

\* A join that returns at once
JoinDoesNotWait(w) == caller[w].pc # "none"

\* Thread.join returns once the thread has ended.
ThreadEnded(w) == caller[w].pc = "done"

\* A thread, or "main", sends a command and waits for the engine's response.
Awaits(m, device, stage, then) ==
    [m EXCEPT !.pc = "await", !.engine = device, !.stage = stage, !.then = then]

\* Measurement.scan, statement by statement: the two controller settings and
\* the first move by "main" itself, then for every position the two phases,
\* each appending its threads, starting them, joining them and clearing the
\* list.  ExceptionThread.join raises what its thread raised.
Measurement_scan ==
    LET m == caller["main"]
        Goes(r) == caller' = [caller EXCEPT !["main"] = r]
    IN
    /\ kind = "Measurement"
    /\ m.op = "scan"
    /\ \/ /\ m.pc \in {"set_sampling_time", "set_trigger_mode"}
          /\ Goes(IF connected.controller
                  THEN Awaits(m, "controller", m.pc,
                              IF m.pc = "set_sampling_time"
                              THEN "set_trigger_mode" ELSE "first_move")
                  ELSE Propagates(m, "NotConnectedError"))
          /\ UNCHANGED faults
       \/ /\ m.pc = "first_move"
          /\ Goes(IF m.length < 2 THEN Propagates(m, "IndexError")
                  ELSE IF connected.table
                  THEN Awaits(m, "table", "move", "append")
                  ELSE Propagates(m, "NotConnectedError"))
          /\ UNCHANGED faults
       \/ /\ m.pc = "await"
          /\ \/ /\ Goes([m EXCEPT !.pc = m.then, !.engine = "none",
                                  !.phase = "positioning"])
                /\ UNCHANGED faults
             \/ /\ faults < limit.faults
                /\ faults' = faults + 1
                /\ Goes(Propagates([m EXCEPT !.engine = "none"], "TimeOutError"))
       \/ /\ m.pc = "append"
          /\ IF m.i = m.length
             THEN Goes([m EXCEPT !.pc = "idle", !.status = "returned"])
             ELSE caller' = [c \in DOMAIN caller |->
                    IF c = "main"
                    THEN [m EXCEPT !.threads = PhaseThreads(m.phase),
                                   !.pc = "start", !.j = 1]
                    ELSE IF \E k \in 1..2 : PhaseThreads(m.phase)[k] = c
                    THEN [NoThread EXCEPT !.pc = "created"]
                    ELSE caller[c]]
          /\ UNCHANGED faults
       \/ /\ m.pc = "start"
          /\ IF m.j <= Len(m.threads)
             THEN caller' = [caller EXCEPT ![m.threads[m.j]].pc = "running",
                                           !["main"].j = m.j + 1]
             ELSE Goes([m EXCEPT !.pc = "join", !.j = 1])
          /\ UNCHANGED faults
       \/ /\ m.pc = "join"
          /\ IF m.j <= Len(m.threads)
             THEN LET w == m.threads[m.j] IN
                  /\ ThreadEnded(w)
                  /\ caller' = [caller EXCEPT
                       ![w].status = "joined",
                       !["main"] = IF caller[w].exc = "none"
                                   THEN [m EXCEPT !.j = m.j + 1]
                                   ELSE Propagates(m, caller[w].exc)]
             ELSE Goes([m EXCEPT !.threads = <<>>, !.pc = "append",
                          !.phase = IF m.phase = "positioning"
                                    THEN "measurement" ELSE "positioning",
                          !.i = IF m.phase = "positioning" THEN m.i ELSE m.i + 1])
          /\ UNCHANGED faults
    /\ UNCHANGED <<stop, transport, threads, connected, nextId>>
    /\ Parked

\* The run() of one of scan()'s threads: _move_thread (Table.move),
\* _display_thread (DataLogger.display, which sends without waiting),
\* _get_z_thread (Controller.acquire, an attribute Controller does not have)
\* and _get_T_thread (DataLogger.get_data).  ExceptionThread.run keeps what
\* the target raises.
Thread_run(w) ==
    LET t == caller[w]
        Ends(e) == [t EXCEPT !.pc = "done", !.exc = e, !.engine = "none"]
        Becomes(r) == caller' = [caller EXCEPT ![w] = r]
    IN
    /\ kind = "Measurement"
    /\ \/ /\ t.pc = "running"
          /\ Becomes(CASE w = "move" ->
                          IF connected.table
                          THEN Awaits(t, "table", "move", "get_status")
                          ELSE Ends("NotConnectedError")
                       [] w = "display" ->
                          IF connected.data_logger
                          THEN Ends("none") ELSE Ends("NotConnectedError")
                       [] w = "get_z" -> Ends("AttributeError")
                       [] w = "get_T" ->
                          IF connected.data_logger
                          THEN Awaits(t, "data_logger", "get_data", "done")
                          ELSE Ends("NotConnectedError"))
          /\ UNCHANGED faults
       \/ /\ t.pc = "await"
          /\ \/ /\ Becomes(IF t.then = "done" THEN Ends("none")
                           ELSE Awaits(t, t.engine, t.then, "done"))
                /\ UNCHANGED faults
             \/ /\ faults < limit.faults
                /\ faults' = faults + 1
                /\ Becomes(Ends("TimeOutError"))
    /\ UNCHANGED <<stop, transport, threads, connected, nextId>>
    /\ Parked

NextMeasurement ==
    \/ Measurement_call
    \/ Measurement_connect
    \/ Measurement_disconnect
    \/ Measurement_scan
    \/ \E w \in Workers : Thread_run(w)

SpecMeasurement == InitMeasurement /\ [][NextMeasurement]_vars

\* ================================= Table settings (table.py, helper.py)
\* Table.resolution, Table.max_travel and Table.max_feed are cached_property
\* attributes over an _on_connection method that asks the device with "$$".
\* connected is Table.connected, attributes the values cached_property has set
\* on the instance, sent the properties a "$$" query was sent for and received
\* the properties whose query was answered.
SettingNames == {"resolution", "max_travel", "max_feed"}

\* Values the device may report for a pair of settings
SettingValues == { <<"250.000", "250.000">>, <<"500.000", "500.000">> }

Unset == <<>>

InitSettings ==
    /\ kind = "Table"
    /\ stop = FALSE
    /\ transport = "unconnected"
    /\ threads = <<>>
    /\ out_queue = <<>>
    /\ in_queue = <<>>
    /\ wire_out = <<>>
    /\ wire_in = <<>>
    /\ caller = [c \in {"main"} |-> IdleCaller]
    /\ nextId = 1
    /\ nextUid = 1
    /\ nConnects = 0
    /\ faults = 0
    /\ limit = [cmds |-> MaxAccesses, connects |-> 0, faults |-> MaxQueryFaults]
    /\ sent = <<>>
    /\ received = <<>>
    /\ delivered = <<>>
    /\ drained = {}
    /\ timedOut = {}
    /\ connected = FALSE
    /\ attributes = [n \in SettingNames |-> Unset]

\* Table.connect and Table.disconnect, as far as they set Table.connected
Table_connected ==
    /\ kind = "Table"
    /\ caller["main"].pc = "idle"
    /\ connected' = ~connected
    /\ UNCHANGED <<engineVars, wireVars, caller, nextId, nextUid, nConnects,
                   faults, limit, attributes, histVars>>

\* Name of the function _on_connection would return without functools.wraps
Unwrapped_name(f) == "checked"

\* Name of the function _on_connection returns: the decorated method's,
\* copied by functools.wraps
Wrapped_name(f) == f

\* setattr(instance, self._attr_name, attr), where _attr_name is the
\* factory's __name__
cached_property_setattr(name, attr) ==
    [n \in DOMAIN attributes \cup {Wrapped_name(name)} |->
       IF n = Wrapped_name(name) THEN attr ELSE attributes[n]]

\* Reading table.<name>: the instance's own attribute if it has one, else
\* cached_property.__get__, which calls the factory: _on_connection raises
\* NotConnectedError unless connected, _get_property sends "$$".
Table_getattr ==
    LET m == caller["main"] IN
    /\ kind = "Table"
    /\ m.pc = "idle"
    /\ nextId <= limit.cmds
    /\ nextId' = nextId + 1
    /\ \E name \in SettingNames :
         LET cmd == [id |-> nextId, text |-> name]
             call == Enter("main", "getattr", cmd, "idle")
         IN
         IF attributes[name] # Unset
         THEN /\ caller' = [caller EXCEPT !["main"] =
                   [Returns(call, NoUnit) EXCEPT !.result = attributes[name]]]
              /\ UNCHANGED sent
         ELSE IF ~connected
         THEN /\ caller' = [caller EXCEPT !["main"] = Raises(call, "NotConnectedError")]
              /\ UNCHANGED sent
         ELSE /\ caller' = [caller EXCEPT !["main"] = [call EXCEPT !.pc = "await"]]
              /\ sent' = Append(sent, name)
    /\ UNCHANGED <<engineVars, wireVars, nextUid, nConnects, faults, limit,
                   connected, attributes, received, delivered, drained, timedOut>>

\* The "$$" query ends: with the settings, which cached_property sets on the
\* instance and returns, or with an exception of the serial connection.
Table_get_property ==
    LET m == caller["main"] IN
    /\ kind = "Table"
    /\ m.pc = "await"
    /\ \/ \E v \in SettingValues :
            /\ attributes' = cached_property_setattr(m.cmd.text, v)
            /\ received' = Append(received, m.cmd.text)
            /\ caller' = [caller EXCEPT !["main"] =
                 [Returns(m, NoUnit) EXCEPT !.result = v]]
            /\ UNCHANGED faults
       \/ /\ faults < limit.faults
          /\ faults' = faults + 1
          /\ caller' = [caller EXCEPT !["main"] = Raises(m, "TimeOutError")]
          /\ UNCHANGED <<attributes, received>>
    /\ UNCHANGED <<engineVars, wireVars, nextId, nextUid, nConnects, limit,
                   connected, sent, delivered, drained, timedOut>>

NextSettings ==
    \/ Table_connected
    \/ Table_getattr
    \/ Table_get_property

SpecSettings == InitSettings /\ [][NextSettings]_vars

\* ====================================== the header parser on its own
\* Channel fields of a packet header: the lowest byte, the six bytes in the
\* middle (all alike) and the highest byte, which holds the sign.
LowBytes == {0, 1, 2, 3, 255}
MiddleBytes == {0, 255}
HighBytes == {0, 1, 127, 128, 129, 255}

FieldOf(low, middle, high) == <<low>> \o [k \in 1..6 |-> middle] \o <<high>>

\* A DataSocket that has received the header of one packet.
InitHeader ==
    /\ kind = "DataSocket"
    /\ stop = FALSE
    /\ transport = "open"
    /\ threads = <<>>
    /\ out_queue = <<>>
    /\ in_queue = <<>>
    /\ wire_out = <<>>
    /\ \E low \in LowBytes, middle \in MiddleBytes, high \in HighBytes :
         wire_in = <<77, 69, 65, 83>> \o Bytes(6220, 4) \o Bytes(1234, 4)
                     \o FieldOf(low, middle, high) \o Bytes(0, 4)
                     \o Bytes(4, 2) \o Bytes(1, 2) \o Bytes(1, 4)
    /\ caller = [c \in {"main"} |-> IdleCaller]
    /\ nextId = 1
    /\ nextUid = 1
    /\ nConnects = 0
    /\ faults = 0
    /\ limit = [cmds |-> 1, connects |-> 0, faults |-> 0]
    /\ sent = <<>>
    /\ received = <<>>
    /\ delivered = <<>>
    /\ drained = {}
    /\ timedOut = {}
    /\ connected = FALSE
    /\ attributes = <<>>

\* self._parse_header(data_stream)
ParsesHeader ==
    /\ kind = "DataSocket"
    /\ Len(wire_in) = HeaderSize
    /\ caller["main"].status = "none"
    /\ caller' = [caller EXCEPT !["main"] =
         [Returns(Enter("main", "_parse_header", NoCmd, "idle"), NoUnit)
            EXCEPT !.result = DataSocket_parse_header(wire_in)]]
    /\ UNCHANGED <<engineVars, wireVars, countVars, histVars>>

SpecHeader == InitHeader /\ [][ParsesHeader]_vars

AllLoopsExited == \A i \in DOMAIN threads : threads[i].pc = "done"

Ids(q) == [k \in DOMAIN q |-> q[k].id]
UidSeq(q) == [k \in DOMAIN q |-> q[k].uid]
StrictlyIncreasing(q) == \A a, b \in DOMAIN q : a < b => q[a] < q[b]

\* The commands output loops hold between get and send, in thread order.
HeldIds ==
    LET holding == SelectSeq(threads, LAMBDA t : t.cmd # NoCmd)
    IN [k \in DOMAIN holding |-> holding[k].cmd.id]

\* The call of caller c has ended.
Ended(c) == caller[c].status \in {"returned", "raised"}

\* Caller c leaves the wait of command() with a timeout in this step.
TimesOut(c) ==
    /\ caller[c].pc = "await"
    /\ caller'[c].status = "raised"
    /\ caller'[c].exc \in {"TimeoutError", "ControllerError: No response"}

\* ------------------------------------------------------------------ C1
\* C1: command(c) on the control socket never returns an answer that the
\* device produced for a different command: whenever it returns, the command
\* the device answered is c.
C1_AnswerIsForTheCommandSent ==
    \A c \in Callers :
        (kind = "ControlSocket" /\ caller[c].op = "command"
         /\ caller[c].status = "returned")
        => caller[c].answer.forText = caller[c].cmd.text

\* ------------------------------------------------------------------ C2
\* C2: a call of command() or disconnect() made after a loop has ended with
\* an exception nobody was handed ends by raising that exception.
C2_LoopExceptionReachesNextCall ==
    \A c \in Callers :
        (caller[c].op \in {"command", "disconnect"} /\ Ended(c)
         /\ caller[c].owed # {})
        => (caller[c].status = "raised" /\ caller[c].exc \in caller[c].owed)

\* ------------------------------------------------------------------ C3
\* C3: commands reach the transport's send in the order command() enqueued
\* them and none is sent twice: the ids sent, then held by the output loop,
\* then still queued, are strictly increasing.
C3_SentInSubmissionOrder ==
    StrictlyIncreasing(sent \o HeldIds \o Ids(out_queue))

C3_Witness == Len(sent) >= 2

\* ------------------------------------------------------------------ C4
\* C4: the k-th unit dequeued by command() is the k-th unit the input loop
\* received: the units received and not drained by an exiting loop are
\* exactly those delivered followed by those still queued, in that order.
C4_DeliveredInArrivalOrder ==
    kind = "SCPISocket" =>
        SelectSeq(received, LAMBDA u : u \notin drained)
            = delivered \o UidSeq(in_queue)

C4_Witness == kind = "SCPISocket" /\ Len(delivered) >= 2

Closes == transport # "closed" /\ transport' = "closed"

DisconnectReturns(c) ==
    /\ caller[c].pc = "join"
    /\ caller'[c].pc = "idle"
    /\ caller'[c].status = "returned"

C6_CloseAfterLoopsExit ==
    /\ [](\A i \in DOMAIN threads :
            threads[i].pc # "done" => transport = "open")
    /\ [][(Closes \/ \E c \in Callers : DisconnectReturns(c))
            => (stop /\ AllLoopsExited)]_vars

\* disconnect() has returned on an engine whose loops were running.
C6_Witness ==
    /\ caller["main"].op = "disconnect"
    /\ caller["main"].status = "returned"
    /\ transport = "closed"
    /\ sent # <<>>

\* ------------------------------------------------------------------ C7
\* C7: when a disconnect() that joined the worker loops of a connected engine
\* has returned, both queues are empty.
C7_QueuesEmptyAfterDisconnect ==
    (caller["main"].op = "disconnect" /\ caller["main"].status = "returned"
     /\ caller["main"].i > 1)
    => (in_queue = <<>> /\ out_queue = <<>>)

\* ------------------------------------------------------------------ C8
\* C8: once the stop signal is raised every worker loop exits, and a
\* disconnect() that has raised it comes back to its caller.
C8_DisconnectTerminates ==
    /\ stop ~> AllLoopsExited
    /\ (caller["main"].pc = "join") ~> (caller["main"].pc = "idle")

\* disconnect() has come back after stopping loops that were running.
C8_Witness ==
    /\ caller["main"].op = "disconnect"
    /\ Ended("main")
    /\ nConnects > 0
    /\ threads = <<>>
    /\ transport = "closed"

\* ------------------------------------------------------------------ C9
\* C9: when two response-expecting commands overlap on one engine, neither
\* caller is handed the response that answers the other's command.
C9_OverlapNeverMisattributes ==
    \A c \in Callers :
        (caller[c].op = "command" /\ caller[c].overlap
         /\ caller[c].status = "returned" /\ caller[c].answer # NoUnit)
        => caller[c].answer.for = caller[c].cmd.id

\* ----------------------------------------------------------------- C10
\* C10: a line in which the device reports an error, or that is not
\* recognised, never ends the input loop.
DeviceReportedErrors ==
    {"UnknownCommandError", "WrongParameterError",
     "ControllerError: Unexpected response"}

C10_InputLoopSurvivesDeviceError ==
    \A i \in DOMAIN threads :
        threads[i].target = "input" => threads[i].error \notin DeviceReportedErrors

\* ----------------------------------------------------------------- C13
\* An input loop has ended with exception e on the line that answers the
\* command caller c is in.
AnsweredWith(c, e) ==
    \E i \in DOMAIN threads :
        /\ threads[i].target = "input"
        /\ threads[i].error = e
        /\ threads[i].cause = caller[c].cmd.id

\* The command() call of caller c ends in this step.
CommandEnds(c) ==
    /\ caller[c].op = "command"
    /\ caller[c].pc = "await"
    /\ caller'[c].pc = "idle"

\* C13: when the controller has answered a command with $UNKNOWN COMMAND
\* (with $WRONG PARAMETER), the command() call for it ends by raising
\* UnknownCommandError (WrongParameterError).
C13_SentinelRaisedToCaller ==
    [][\A c \in Callers :
         \A e \in {"UnknownCommandError", "WrongParameterError"} :
            (kind = "ControlSocket" /\ CommandEnds(c) /\ AnsweredWith(c, e))
            => (caller'[c].status = "raised" /\ caller'[c].exc = e)]_vars

\* ----------------------------------------------------------------- C14
\* The line the unit handed to caller c was received as, without CR and LF.
LineOf(c) == Strip(caller[c].answer.raw, CRLFChars)

\* line is "$" + cmd + payload + "OK" for some payload
HasShape(line, cmd) ==
    /\ StartsWith(line, <<"$">> \o cmd)
    /\ EndsWith(line, OK)
    /\ Len(line) >= Len(cmd) + 3

\* C14: a command() call for c that dequeues the line "$" + c + p + "OK"
\* returns, and returns exactly p.
C14_PayloadReturned ==
    \A c \in Callers :
        (kind = "ControlSocket" /\ caller[c].op = "command" /\ Ended(c)
         /\ caller[c].answer # NoUnit /\ HasShape(LineOf(c), caller[c].cmd.text))
        => /\ caller[c].status = "returned"
           /\ <<"$">> \o caller[c].cmd.text \o caller[c].answer.data \o OK
                = LineOf(c)

C14_Witness ==
    /\ kind = "ControlSocket"
    /\ caller["main"].op = "command"
    /\ caller["main"].status = "returned"
    /\ caller["main"].answer.for = caller["main"].cmd.id
    /\ caller["main"].answer.data = <<"6">>

\* ----------------------------------------------------------------- C15
UnexpectedResponseErrors ==
    {"ControllerError: Unexpected response",
     "ControllerError: Unexpected response on command"}

\* The line caller c is about to dequeue does not begin with "$" + command.
HeadLacksEcho(c) ==
    /\ in_queue # <<>>
    /\ ~StartsWith(Strip(Head(in_queue).raw, CRLFChars),
                   <<"$">> \o caller[c].cmd.text)

\* C15: a command() call whose line lacks the echo of its command, or whose
\* command was answered with a line that neither ends in OK nor is a sentinel,
\* ends by raising the unexpected-response error.
C15_UnexpectedResponseRaisedToCaller ==
    [][\A c \in Callers :
         (/\ kind = "ControlSocket"
          /\ CommandEnds(c)
          /\ \/ HeadLacksEcho(c)
             \/ AnsweredWith(c, "ControllerError: Unexpected response"))
         => (/\ caller'[c].status = "raised"
             /\ caller'[c].exc \in UnexpectedResponseErrors)]_vars

\* ------------------------------------------------------------ C11
GrblFailures == {GrblError(<<"2">>), GrblAlarm(<<"1">>)}

\* C11: when grbl answers a command with 'error:<code>' or 'ALARM:<code>',
\* the command() call of that command ends by raising GrblError / GrblAlarm,
\* whose message holds the code and its description from the lookup table.
C11_GrblFailureRaisedToCaller ==
    [][\A c \in Callers : \A e \in GrblFailures :
          (kind = "SerialConnection" /\ CommandEnds(c) /\ AnsweredWith(c, e))
              => (caller'[c].status = "raised" /\ caller'[c].exc = e)]_vars

\* ------------------------------------------------------------ C12
\* caller c takes a line from in_queue in this step
Received(c) ==
    /\ kind = "SerialConnection"
    /\ caller[c].pc = "await"
    /\ in_queue # <<>>
    /\ delivered' = Append(delivered, Head(in_queue).uid)

\* the command() call of c returns in this step: the Table method ends or
\* goes on to its next command
CycleEnds(c) ==
    /\ caller'[c].returned = Append(caller[c].answers, Head(in_queue))
    /\ caller'[c].pc = "idle" \/ caller'[c].cmd # caller[c].cmd

KeepsWaiting(c) ==
    /\ caller'[c].pc = "await"
    /\ caller'[c].cmd = caller[c].cmd
    /\ caller'[c].answers = Append(caller[c].answers, Head(in_queue))

AnswersStatusQuery(c, message) ==
    /\ message.key = "status"
    /\ caller[c].cmd.text = GrblStatusQuery
    /\ message.for = caller[c].cmd.id

\* C12 as stated: a request cycle on the serial connection ends successfully
\* as soon as an 'ok' line arrives or, for a status query, as soon as the
\* status report that answers it arrives; every other line is collected and
\* the cycle keeps waiting.
C12_EndsOnOkOrAnsweringStatus ==
    [][\A c \in Callers :
          Received(c) =>
              IF Head(in_queue).key = "ok" \/ AnswersStatusQuery(c, Head(in_queue))
              THEN CycleEnds(c)
              ELSE KeepsWaiting(c)]_vars

\* C12, amended: a request cycle on the serial connection ends successfully
\* exactly when an 'ok' line arrives, for a status query too; every line
\* received before it, the status report included, is collected into the
\* answer and the cycle keeps waiting, so the 'ok' is the last element of
\* the returned answer.
C12_EndsOnOk ==
    [][\A c \in Callers :
          Received(c) =>
              IF Head(in_queue).key = "ok"
              THEN CycleEnds(c)
              ELSE KeepsWaiting(c)]_vars

\* get_status has returned on the answer <<status report, ok>> to its query
C12_Witness ==
    /\ kind = "SerialConnection"
    /\ caller["main"].op = "command"
    /\ caller["main"].proc = "get_status"
    /\ caller["main"].status = "returned"
    /\ Len(caller["main"].returned) = 2
    /\ caller["main"].returned[1].key = "status"
    /\ caller["main"].returned[1].for = caller["main"].cmd.id
    /\ caller["main"].returned[2].key = "ok"

\* ------------------------------------------------------------ C16
Priority ==
    <<"ok", "error", "welcome_message", "alarm", "setting", "startup_lines",
      "message", "startup_execution", "status", "empty">>

Matches(key, line) == PatternMatch(key, line) # NoMatch

\* the first pattern in priority order that matches line, "none" when no
\* pattern matches
Category(line) ==
    IF \E k \in DOMAIN Priority : Matches(Priority[k], line)
    THEN Priority[CHOOSE k \in DOMAIN Priority :
                    /\ Matches(Priority[k], line)
                    /\ \A j \in 1..(k - 1) : ~Matches(Priority[j], line)]
    ELSE "none"

\* the input thread i handles the line at the head of the port in this step
HandlesLine(i) ==
    /\ threads[i].target = "input"
    /\ threads[i].pc = "recv"
    /\ wire_in # <<>>
    /\ wire_in' = Tail(wire_in)

\* C16: the input thread assigns the line it reads to the first pattern that
\* matches it in the order ok, error, welcome message, alarm, setting, startup
\* line, message, startup execution, status, empty, and to no other (error
\* and alarm raise, empty is skipped, every other category is enqueued under
\* its key); a line that matches no pattern raises ConnectionError
\* ("Unrecognized response from grbl") and is not enqueued.
C16_FirstMatchingCategory ==
    [][\A i \in DOMAIN threads :
          (kind = "SerialConnection" /\ HandlesLine(i)) =>
              LET raw == Head(wire_in).raw
                  cat == Category(Strip(raw, CRLFChars))
              IN CASE cat = "none" ->
                        /\ threads'[i].error = "ConnectionError"
                        /\ in_queue' = in_queue
                   [] cat = "error" ->
                        /\ threads'[i].error \in {GrblError(<<d>>) : d \in Digit}
                                                     \cup {"KeyError"}
                        /\ in_queue' = in_queue
                   [] cat = "alarm" ->
                        /\ threads'[i].error \in {GrblAlarm(<<d>>) : d \in Digit}
                                                     \cup {"KeyError"}
                        /\ in_queue' = in_queue
                   [] cat = "empty" ->
                        /\ threads'[i].error = "none"
                        /\ in_queue' = in_queue
                   [] OTHER ->
                        /\ threads'[i].error = "none"
                        /\ Len(in_queue') = Len(in_queue) + 1
                        /\ in_queue'[Len(in_queue')].key = cat
                        /\ in_queue'[Len(in_queue')].raw = raw]_vars

\* an unrecognized line has been read: the input thread has raised
\* ConnectionError and nothing was enqueued
C16_Witness ==
    /\ kind = "SerialConnection"
    /\ wire_in = <<>>
    /\ in_queue = <<>>
    /\ \E i \in DOMAIN threads :
         threads[i].target = "input" /\ threads[i].error = "ConnectionError"

\* ------------------------------------------------------------ C17
\* C17: when Table.move() has returned, the last answer it read begins with
\* a status report that answers a status query issued after the move
\* command and whose machine state is "idle" in any letter case, and the
\* position returned is the position of that report.
C17_MoveReturnsOnIdleAfterMove ==
    \A c \in Callers :
        (kind = "SerialConnection" /\ caller[c].op = "command"
            /\ caller[c].proc = "move" /\ caller[c].status = "returned") =>
            LET report == caller[c].returned[1] IN
            /\ report.key = "status"
            /\ LowerCase(report.groups[1]) = <<"i", "d", "l", "e">>
            /\ report.for > caller[c].moveId
            /\ caller[c].result[2] = StatusOf(<<report>>).position

C19_TimeoutAbortsDecode ==
    [][\A i \in DOMAIN threads :
          (kind = "DataSocket" /\ threads[i].pc = "timed_out"
              /\ threads'[i] # threads[i])
              => (threads'[i].pc = "done" /\ Len(in_queue') = Len(in_queue) + 1)]_vars

\* ------------------------------------------------------------ C20
\* C20: when in_thread has failed because a requested channel index is not
\* below the number of channels a packet header announces,
\* Controller.stop_acquisition, which collects the result, raises that
\* insufficient-channels error to its caller.
C20_InsufficientChannelsRaisedToCaller ==
    [][\A c \in Callers :
          (kind = "DataSocket" /\ caller[c].op = "stop_acquisition"
              /\ caller[c].pc = "join" /\ caller'[c].pc = "idle"
              /\ \E i \in DOMAIN threads : threads[i].error = InsufficientChannels)
              => (caller'[c].status = "raised"
                    /\ caller'[c].exc = InsufficientChannels)]_vars

\* ------------------------------------------------------------ C21
\* in_thread i takes a step in which it reads the buffered header
ReadsHeader(i) ==
    /\ threads[i].pc = "header"
    /\ Len(threads[i].data_stream) >= HeaderSize
    /\ threads'[i] # threads[i]

\* in_thread i takes a step in which it slices the buffered payload
SlicesPayload(i) ==
    /\ threads[i].pc = "payload"
    /\ Len(threads[i].data_stream) >= Needed([threads[i] EXCEPT !.waits = "payload"])
    /\ threads'[i] # threads[i]

\* C21: a packet whose header announces zero active channels, or zero
\* frames, is accepted: reading its header raises no error, and slicing it
\* removes its 32 + payload_size bytes from the buffer and stores no sample.
C21_EmptyPacketAccepted ==
    [][\A i \in DOMAIN threads :
          kind = "DataSocket" =>
            /\ (ReadsHeader(i)
                  /\ LET parsed == DataSocket_parse_header(threads[i].data_stream)
                     IN parsed.nr_of_channels = 0 \/ parsed.nr_of_frames = 0)
                 => (threads'[i].error = "none" /\ threads'[i].pc = "payload")
            /\ (SlicesPayload(i)
                  /\ (threads[i].header.nr_of_channels = 0
                        \/ threads[i].header.nr_of_frames = 0))
                 => /\ threads'[i].error = "none"
                    /\ threads'[i].data = threads[i].data
                    /\ threads'[i].received_points = threads[i].received_points
                    /\ threads'[i].data_stream =
                         Drop(threads[i].data_stream,
                              Needed([threads[i] EXCEPT !.waits = "payload"]))]_vars

\* ------------------------------------------------------------ C22
\* Caller c's connect() raises in this step.
ConnectFails(c) ==
    /\ caller[c].pc = "idle"
    /\ caller'[c].op = "connect"
    /\ caller'[c].status = "raised"
    /\ nConnects' = nConnects + 1

\* The engine as a failed connect() leaves it: a transport that was created
\* but is not served by any thread.
AfterFailedConnect ==
    /\ threads = <<>>
    /\ transport \in {"unconnected", "open"}

\* C22: a connect() that fails while opening the transport starts no worker
\* loop, and the disconnect() that follows has no thread to wait for and
\* returns without raising.
C22_DisconnectAfterFailedConnect ==
    [][\A c \in Callers :
          kind \in Kinds =>
            /\ ConnectFails(c) => (threads' = threads /\ AfterFailedConnect')
            /\ (AfterFailedConnect /\ caller[c].pc = "join")
                 => caller[c].i > Len(threads)
            /\ (AfterFailedConnect /\ caller[c].pc = "join" /\ caller'[c] # caller[c])
                 => (caller'[c].status = "returned" /\ caller'[c].pc = "idle"
                       /\ transport' = "closed" /\ threads' = <<>>)]_vars

\* The only connect() was the call that failed (a thread that met the fault
\* would have made the disconnect() raise), and the disconnect() after it
\* has returned.
C22_Witness ==
    /\ kind = "SCPISocket"
    /\ nConnects = 1
    /\ faults = 1
    /\ transport = "closed"
    /\ caller["main"].op = "disconnect"
    /\ caller["main"].status = "returned"

\* ------------------------------------------------------------ C23
\* Caller c, whose previous call was a disconnect(), calls disconnect() again.
SecondDisconnect(c) ==
    /\ caller[c].pc = "idle"
    /\ caller[c].op = "disconnect"
    /\ caller'[c].pc = "join"

\* The state a completed disconnect() is meant to leave.
FullyDisconnected ==
    /\ stop
    /\ threads = <<>>
    /\ out_queue = <<>>
    /\ in_queue = <<>>
    /\ transport = "closed"

\* C23: a disconnect() called right after a disconnect() finds the stop
\* signal set, no loop to join, both channels empty and the transport
\* closed, and it returns leaving all of that as it was.
C23_SecondDisconnectIsNoOp ==
    [][\A c \in Callers :
          kind \in Kinds =>
            /\ SecondDisconnect(c) => FullyDisconnected
            /\ (FullyDisconnected /\ caller[c].pc = "join" /\ caller'[c] # caller[c])
                 => (caller'[c].status = "returned" /\ FullyDisconnected')]_vars

\* ------------------------------------------------------------ C24
\* The threads of the engine that are running the given loop.
Running(target) ==
    {i \in DOMAIN threads : threads[i].target = target /\ threads[i].pc # "done"}

\* C24: whatever connect() and disconnect() calls were made, at most one
\* input loop and at most one output loop of an engine are running.
C24_AtMostOneLoopOfEachKind ==
    kind \in Kinds =>
      /\ Cardinality(Running("input")) <= 1
      /\ Cardinality(Running("output")) <= 1

\* ------------------------------------------------------------ C25
\* The connection is established: the engine's socket is connected and its
\* loops have been started.
ConnectionEstablished == transport = "open" /\ threads # <<>>

\* Caller c calls a method that on_connection wraps.
MethodCalled(c) ==
    /\ BetweenCalls(c)
    /\ caller'[c] # caller[c]
    /\ caller'[c].op \in {"command", "on_connection"}

\* C25: a method wrapped by on_connection submits its command only while the
\* connection is established; called in any other state, also after a
\* connect() that failed, it raises NotConnectedError and enqueues nothing.
C25_BodyOnlyWhileConnected ==
    [][\A c \in Callers :
          (kind = "SCPISocket" /\ MethodCalled(c)) =>
            /\ caller'[c].op = "command" => ConnectionEstablished
            /\ ~ConnectionEstablished
                 => (caller'[c].exc = "NotConnectedError" /\ out_queue' = out_queue)]_vars

\* ------------------------------------------------------------ C26
\* Caller c is inside Device.disconnect.
InDeviceDisconnect(c) ==
    \/ caller[c].op = "Device.disconnect"
    \/ ResetDisplayReturned(c)
    \/ caller[c].op = "disconnect" /\ caller[c].pc = "join"

\* C26: on a connected logger Device.disconnect submits the display reset
\* and ends by returning, with every loop joined and removed from the list
\* and the socket closed.
C26_DisconnectTerminatesConnection ==
    [][\A c \in Callers :
          (kind = "SCPISocket" /\ ConnectionEstablished) =>
            /\ (caller[c].op = "Device.disconnect" /\ caller'[c] # caller[c])
                 => (caller'[c].status = "returned"
                       /\ caller'[c].cmd.text = <<"display:text:clear">>)
            /\ (InDeviceDisconnect(c) /\ ~InDeviceDisconnect(c)')
                 => (caller'[c].status = "returned" /\ threads' = <<>>
                       /\ transport' = "closed")]_vars

\* ------------------------------------------------------------ C27
\* Input thread i ends a receive that yielded no data: nothing was there to
\* be received and the transport did not fail.
ReceiveTimedOut(i) ==
    /\ threads[i].target = "input"
    /\ threads[i].pc = "recv"
    /\ wire_in = <<>>
    /\ faults' = faults
    /\ threads'[i] # threads[i]

\* Input thread i evaluates the loop condition while the stop signal is down.
LoopConditionHolds(i) ==
    /\ threads[i].target = "input"
    /\ threads[i].pc = "top"
    /\ ~stop
    /\ threads'[i] # threads[i]

\* C27: a receive of the input loop that times out puts nothing on the
\* inbound queue and does not end the loop: the thread is back at the loop
\* condition without an error, and from there it receives again unless the
\* stop signal has been raised.
C27_ReceiveTimeoutIsNotAnError ==
    [][\A i \in DOMAIN threads :
          (kind = "SCPISocket" /\ i \in DOMAIN threads') =>
            /\ ReceiveTimedOut(i)
                 => /\ in_queue' = in_queue
                    /\ received' = received
                    /\ threads'[i].error = "none"
                    /\ threads'[i].pc = "top"
            /\ LoopConditionHolds(i) => threads'[i].pc = "recv"]_vars

\* The input loop has enqueued a response, has come round, and is in a
\* receive for which nothing will arrive.
C27_Witness ==
    /\ kind = "SCPISocket"
    /\ ~stop
    /\ wire_in = <<>>
    /\ wire_out = <<>>
    /\ received # <<>>
    /\ \E i \in DOMAIN threads :
         threads[i].target = "input" /\ threads[i].pc = "recv"

\* ------------------------------------------------------------ C28
\* C28: when grbl answers a command with an error code the lookup table does
\* not list, the failed lookup ends that command's command() call: the call
\* raises the KeyError of the lookup, and returns no description in place of
\* the missing one.
C28_FailedLookupRaisedToCaller ==
    [][\A c \in Callers :
          (kind = "SerialConnection" /\ CommandEnds(c) /\ AnsweredWith(c, "KeyError"))
              => (caller'[c].status = "raised" /\ caller'[c].exc = "KeyError")]_vars

\* ------------------------------------------------------------ C29
\* The ids of the commands waiting in a queue.
Queued(q) == {q[k].id : k \in DOMAIN q}

\* Output thread i holds command id between its get and its send.
Holds(i, id) ==
    /\ threads'[i].target = "output"
    /\ threads'[i].pc = "send"
    /\ threads'[i].cmd.id = id

\* C29: a command leaves the outbound queue only into the hands of the
\* output loop, which passes it to the transport's send, and no command is
\* sent twice: none is discarded unsent, also one submitted without waiting
\* for a response right before disconnect().
C29_EveryCommandSentOnce ==
    [][kind = "SCPISocket" =>
         /\ \A id \in Queued(out_queue) \ Queued(out_queue') :
              \E i \in DOMAIN threads' : Holds(i, id)
         /\ \A j, k \in DOMAIN sent' : sent'[j] = sent'[k] => j = k]_vars

\* ------------------------------------------------------------ C30
\* The disconnect() call of caller c ends in this step.
DisconnectEnds(c) ==
    /\ caller[c].op = "disconnect"
    /\ caller[c].pc = "join"
    /\ caller'[c].pc = "idle"

\* A worker loop has terminated with an exception.
SomeLoopFailed == \E i \in DOMAIN threads : threads[i].error # "none"

\* C30: when a worker loop has terminated with an exception, the
\* disconnect() call ends, whether it returns or raises, only after every
\* loop has exited, the thread list is empty and the transport is closed.
C30_DisconnectCompletesBeforeRaising ==
    [][\A c \in Callers :
          (kind \in Kinds /\ DisconnectEnds(c) /\ SomeLoopFailed) =>
            /\ \A i \in DOMAIN threads : threads[i].pc = "done"
            /\ threads' = <<>>
            /\ transport' = "closed"]_vars

\* ------------------------------------------------------------ C31
\* C31: every line that command(c) takes from the inbound queue, for its
\* answer or as its terminating 'ok', was sent by the device in reply to c,
\* never in reply to an earlier command.
C31_AnswerHoldsOwnLinesOnly ==
    [][\A c \in Callers :
          Received(c) => Head(in_queue).for = caller[c].cmd.id]_vars

\* ------------------------------------------------------------ C32
\* The smaller of two numbers.
Min(a, b) == IF a < b THEN a ELSE b

\* in_thread i puts its array into in_queue in this step.
PutsData(i) ==
    /\ threads[i].pc = "loop"
    /\ in_queue' # in_queue

PositioningThreads == {"move", "display"}
AcquisitionThreads == {"get_z", "get_T"}

Started(w) == caller[w].pc = "created" /\ caller'[w].pc = "running"

HasBeenJoined(w) == caller[w].pc = "done" /\ caller[w].status = "joined"

Outstanding(device) ==
    {c \in DOMAIN caller : caller[c].pc = "await" /\ caller[c].engine = device}

MeasurementDisconnected ==
    /\ kind = "Measurement"
    /\ caller["main"].pc = "idle"
    /\ "table" \in caller["main"].invoked

C34_DisconnectReachesEveryDevice ==
    MeasurementDisconnected =>
        /\ caller["main"].invoked = Devices
        /\ \A d \in Devices : threads[d] = <<>> /\ transport[d] # "open"

\* ------------------------------------------------------------------ C35
\* command() is called while the stop signal is set.
CalledWhileStopped(c) ==
    /\ kind = "SCPISocket"
    /\ stop
    /\ caller[c].pc = "idle"
    /\ caller'[c].op = "command"
    /\ caller'[c].cmd.id = nextId

\* C35: a command() called while the stop signal is set puts nothing into the
\* outbound queue, takes nothing from the inbound queue and returns without a
\* response and without raising.
C35_CommandWhileStoppedDoesNothing ==
    [][\A c \in Callers :
          CalledWhileStopped(c) =>
            /\ out_queue' = out_queue
            /\ in_queue' = in_queue
            /\ caller'[c].pc = "idle"
            /\ caller'[c].status = "returned"
            /\ caller'[c].exc = "none"
            /\ caller'[c].answer = NoUnit]_vars

C35_Witness ==
    /\ kind = "SCPISocket"
    /\ stop
    /\ transport = "closed"
    /\ caller["main"].op = "command"
    /\ caller["main"].status = "returned"
    /\ caller["main"].cmd.text = <<"route:mon:data", "?">>
    /\ caller["main"].answer = NoUnit
    /\ \A k \in DOMAIN sent : sent[k] # caller["main"].cmd.id

\* ------------------------------------------------------------------ C36
TimesIn(seq, x) == Cardinality({k \in DOMAIN seq : seq[k] = x})

Accessed(name) ==
    /\ kind = "Table"
    /\ caller["main"].pc = "idle"
    /\ caller'["main"].cmd.id = nextId
    /\ caller'["main"].cmd.text = name

AccessEnds ==
    /\ kind = "Table"
    /\ caller["main"].pc # "idle"
    /\ caller'["main"].pc = "idle"

\* C36: each of resolution, max_travel and max_feed is fetched at most once
\* for a Table: the first access that succeeds sends the query and keeps the
\* value, every later access returns the kept value and sends nothing, and an
\* access that fails keeps nothing.
C36_SettingsFetchedAtMostOnce ==
    /\ [](kind = "Table" =>
            \A name \in SettingNames : TimesIn(received, name) <= 1)
    /\ [][/\ \A name \in SettingNames :
               (Accessed(name) /\ TimesIn(received, name) = 1)
                 => /\ sent' = sent
                    /\ attributes' = attributes
                    /\ caller'["main"].status = "returned"
                    /\ caller'["main"].result = attributes[name]
          /\ AccessEnds =>
               IF caller'["main"].status = "raised"
               THEN attributes' = attributes
               ELSE /\ attributes'[caller["main"].cmd.text] = caller'["main"].result
                    /\ caller'["main"].result # Unset]_vars

C36_Witness ==
    /\ kind = "Table"
    /\ TimesIn(received, "max_feed") = 1
    /\ TimesIn(sent, "max_feed") = 2
    /\ caller["main"].cmd.text = "max_feed"
    /\ caller["main"].status = "returned"
    /\ caller["main"].cmd.id = MaxAccesses
    /\ caller["main"].result = attributes["max_feed"]

\* ------------------------------------------------------------------ C37
\* Table.unlock ends, its answer beginning with the unlock message or 'ok'.
UnlockSucceeded(c) ==
    /\ kind = "SerialConnection"
    /\ caller[c].proc = "unlock"
    /\ caller[c].pc = "await"
    /\ caller'[c].pc = "idle"
    /\ caller'[c].returned # <<>>
    /\ \/ caller'[c].returned[1].key = "ok"
       \/ /\ caller'[c].returned[1].key = "message"
          /\ caller'[c].returned[1].groups[1] = T_Unlocked

\* C37: Table.unlock returns normally when the first line of the answer to
\* "$X" is the message 'MSG:Caution: Unlocked' or is 'ok'; it raises
\* UnlockError only when the unlock did not succeed.
C37_UnlockReturnsOnSuccess ==
    [][\A c \in Callers :
          UnlockSucceeded(c) => caller'[c].status = "returned"]_vars

\* ------------------------------------------------------------------ C38
\* C38: whatever the 64 bits of the channel field of a header are, the number
\* of channels _parse_header returns is the number of bits set in the field.
C38_ChannelCountIsPopCount ==
    (/\ kind = "DataSocket"
     /\ caller["main"].op = "_parse_header"
     /\ caller["main"].status = "returned")
        => caller["main"].result.nr_of_channels = PopCount(SubSeq(wire_in, 13, 20))

=============================================================================
